---- MODULE Spec2Model ----
(***************************************************************************)
(* Matchmaking -> conversation -> message lifecycle of ConfessIt, with the *)
(* expiry sweeper and the WebSocket connection registry.                   *)
(*                                                                         *)
(* Time is counted in ticks of TickSeconds seconds.  Every timestamp the   *)
(* program takes with datetime.now()/utcnow() is the value of `now` at the *)
(* step that takes it.  The clock starts at 0, skips the quiet hours in    *)
(* which no window of an object created at 0 opens or closes, and then     *)
(* advances tick by tick through the warning window, the instant of expiry *)
(* and beyond.  A conversation is identified by the id of its match (the   *)
(* code looks conversations up by matchId).                                *)
(***************************************************************************)
EXTENDS Integers, Sequences, FiniteSets, TLC

(* ------------------------------ bounds -------------------------------- *)
\* last clock value explored
MaxNow == 9
\* number of Match documents that may be created when only matchmaking runs
MaxMatches == 2
\* number of Match documents (each with its Conversation) in the lifecycle runs
MaxConversations == 1
\* number of WebSocket connections
MaxSockets == 3
\* number of Message documents that may be created
MaxMessages == 2

(* ------------------------- program constants -------------------------- *)
MATCHMAKING_COOLDOWN_HOURS == 4
MATCH_EXPIRY_HOURS == 4
\* timedelta(hours=4) in validate_conversation_participant
CONVERSATION_EXPIRY_HOURS == 4
\* the default of the fetch route's limit parameter
DEFAULT_LIMIT == 200
\* the sweeper's warning window, in seconds
EXPIRY_WARNING_SECONDS == 1800

\* one tick of the model clock is half an hour
TickSeconds == 30 * 60
Hours(h) == (h * 3600) \div TickSeconds
\* Optional[datetime] = None
NoTime == 0 - 1
\* Optional[str] = None
NoUser == "none"

Users == {"u1", "u2", "u3"}
gender == [u \in Users |-> IF u = "u2" THEN "female" ELSE "male"]
\* populations of the UserDetails collection the runs start from: the set of
\* users whose isMatchmaking flag is set
OptInChoices == {{"u2"}, {"u1", "u2"}}

Statuses == {"pending", "requested", "accepted", "rejected", "expired", "terminated"}

VARIABLES
    now,                    \* wall clock
    isMatchmaking,          \* UserDetails.isMatchmaking, per user
    last_matchmaking_time,  \* UserDetails.last_matchmaking_time, per user
    matches,                \* db.matches: sequence of Match documents, id = index
    conversations,          \* db.conversations: match id -> Conversation document
    supabase,               \* Supabase conversations table: match id -> row
    messages,               \* db.messages: sequence of Message documents
    notifications,          \* db.notifications: set of <<user, kind, match>>
    redis_published,        \* message ids published on the conversation channel
    events,                 \* sweeper broadcasts issued: set of <<type, match>>
    sweepList,              \* the sweeper's active_matches still to process
    sweepPc,                \* the sweeper: "sleep" (between passes) or "loop"
    sweepOwed,              \* history: matches overdue and accepted at the last query
    lastCall,               \* history: per user, time and answer of the last find_match
    active_connections,     \* ConnectionManager: match id -> set of sockets
    user_connections,       \* ConnectionManager: user id -> set of sockets
    websocket_users,        \* ConnectionManager: socket -> user id
    websocket_matches,      \* ConnectionManager: socket -> match id
    lock,                   \* ConnectionManager._lock: "free" or "held"
    sock,                   \* each socket: "new", "open" or "closed" (peer gone)
    broadcast,              \* the broadcast_to_match call in progress (or the last one)
    message_reports,        \* db.message_reports, in insertion order
    reply,                  \* history: the last call answered and its HTTP status
    blocker,                \* history: per match, who set the block now in force
    caller,                 \* the socket whose handler runs broadcast_to_match (0: none)
    user_broadcast,         \* the broadcast_to_user call in progress (or the last one)
    threads,                \* thread pool: per worker thread, the call it is running
    waiter                  \* a broadcast_to_match call waiting for the lock (or the last one)

lifeVars == <<now, isMatchmaking, last_matchmaking_time, matches, conversations,
              supabase, messages, notifications, redis_published, events, sweepList>>

sweepVars == <<sweepPc, sweepOwed>>

wsVars == <<active_connections, user_connections, websocket_users,
            websocket_matches, lock, sock, broadcast>>

callVars == <<caller, user_broadcast>>

poolVars == <<threads, waiter>>

auxVars == <<message_reports, reply, blocker, callVars, poolVars>>

vars == <<lifeVars, sweepVars, lastCall, wsVars, auxVars>>

MatchIds == 1..MaxMatches

\* no call answered yet
NoReply == [op |-> "none", user |-> NoUser, target |-> 0, code |-> 0, fails |-> {}]

Sockets == 1..MaxSockets

(* ------------------------------ helpers ------------------------------- *)
\* `current_time > match_expires_at`, the test of request/accept/reject
MatchExpired(m) == now > matches[m].expires_at

HasMatch(m) == m \in 1..Len(matches)
HasConversation(m) == m \in DOMAIN conversations
HasRow(m) == m \in DOMAIN supabase

\* the outer `except Exception` of request/accept/reject catches the
\* HTTPException the body raised and raises a 500 in its place
wrap_exception(code, ok) == IF code = ok THEN ok ELSE 500

\* supabase_service.update_conversation_status_in_supabase
update_conversation_status_in_supabase(m, st) ==
    IF HasRow(m) THEN [supabase EXCEPT ![m].status = st] ELSE supabase

(* --------------------------- notifications ---------------------------- *)
\* the steps of a call that the environment can make raise
Failures == {"notification", "conversation_insert", "supabase_sync"}

\* notification_service.create_notification_service: db.notifications after the
\* insert, which leaves nothing behind when it raises
create_notification_service(fails, n) ==
    IF "notification" \in fails THEN notifications ELSE notifications \cup {n}

(* ---------------------------- matchmaking ----------------------------- *)
\* mutation of the cooldown test: the boundary instant counted as cooling down
check_matchmaking_cooldown_inclusive(u) ==
    /\ last_matchmaking_time[u] # NoTime
    /\ now - last_matchmaking_time[u] <= Hours(MATCHMAKING_COOLDOWN_HOURS)

\* TRUE when the user is on cooldown
check_matchmaking_cooldown_service(u) ==
    /\ last_matchmaking_time[u] # NoTime
    /\ now - last_matchmaking_time[u] < Hours(MATCHMAKING_COOLDOWN_HOURS)

\* the query of find_match_service
candidates(u) ==
    {v \in Users : v # u /\ gender[v] # gender[u] /\ isMatchmaking[v]}

\* the HTTP status find_match_service answers with
find_match_response(u) ==
    IF check_matchmaking_cooldown_service(u) THEN 429
    ELSE IF candidates(u) = {} THEN 404
    ELSE 200

\* mutation of the count == 0 branch: NotFound raised without the stamp
stamp_on_empty_pool_skipped(u) == last_matchmaking_time

\* the count == 0 branch stamps the attempt before raising NotFound
stamp_on_empty_pool(u) == [last_matchmaking_time EXCEPT ![u] = now]

\* mutation of the stamp after the match insert: both users stamped
stamp_on_match_both(u, v) ==
    [last_matchmaking_time EXCEPT ![u] = now, ![v] = now]

\* the update_one after the match insert stamps the caller's document only
stamp_on_match(u, v) == [last_matchmaking_time EXCEPT ![u] = now]

\* the status seen by the caller when the steps in `fails` raise: the
\* notification insert is outside any try block, the conversation insert and
\* the Supabase sync are inside one that logs and goes on
find_match_outcome(u, fails) ==
    IF find_match_response(u) = 200 /\ "notification" \in fails THEN 500
    ELSE find_match_response(u)

\* the writes of find_match_service once the cooldown check has passed and
\* the $sample has returned v: the match insert, the stamp, the notification,
\* the pending conversation and its Supabase row
find_match_write(u, v, fails) ==
    LET id == Len(matches) + 1
        inserted == fails \cap {"notification", "conversation_insert"} = {}
        synced == inserted /\ "supabase_sync" \notin fails
    IN
    /\ matches' = Append(matches,
           [user_1_regno |-> u, user_2_regno |-> v,
            created_at |-> now,
            expires_at |-> now + Hours(MATCH_EXPIRY_HOURS)])
    /\ last_matchmaking_time' = stamp_on_match(u, v)
    /\ notifications' = create_notification_service(fails, <<v, "matched", id>>)
    /\ conversations' =
           IF inserted
           THEN conversations @@ (id :>
                    [initiatorId |-> u, receiverId |-> v, status |-> "pending",
                     requestedAt |-> NoTime, acceptedAt |-> NoTime,
                     terminatedAt |-> NoTime, createdAt |-> now,
                     isBlocked |-> FALSE, last_message_at |-> NoTime])
           ELSE conversations
    /\ supabase' =
           IF synced
           THEN supabase @@ (id :>
                    [status |-> "pending", is_blocked |-> FALSE,
                     blocked_by |-> NoUser])
           ELSE supabase
    /\ UNCHANGED <<now, isMatchmaking, messages, redis_published, events, sweepList>>

\* find_match_service, with the steps in `fails` raising
find_match_with(u, fails) ==
    /\ IF find_match_response(u) = 429 THEN
           UNCHANGED lifeVars
       ELSE IF find_match_response(u) = 404 THEN
           /\ last_matchmaking_time' = stamp_on_empty_pool(u)
           /\ UNCHANGED <<now, isMatchmaking, matches, conversations, supabase,
                          messages, notifications, redis_published, events, sweepList>>
       ELSE
           \E v \in candidates(u) : find_match_write(u, v, fails)

\* find_match_service when nothing raises
find_match_service(u) == find_match_with(u, {})

(* ---------------------- conversation state machine -------------------- *)
\* what request_conversation_service raises inside its try block (201: none)
request_conversation_check(u, m) ==
    IF ~HasMatch(m) THEN 404
    ELSE IF MatchExpired(m) THEN 410
    ELSE IF u \notin {matches[m].user_1_regno, matches[m].user_2_regno} THEN 403
    ELSE IF ~HasConversation(m) THEN 404
    ELSE IF conversations[m].initiatorId # u THEN 403
    ELSE IF conversations[m].status # "pending" THEN 409
    ELSE 201

\* the HTTP status the caller of request_conversation_service sees
request_conversation_response(u, m) ==
    wrap_exception(request_conversation_check(u, m), 201)

\* the status seen by the caller when the steps in `fails` raise: a notification
\* insert that raises is caught by the outer `except Exception` as well
request_conversation_outcome(u, m, fails) ==
    IF request_conversation_check(u, m) = 201 /\ "notification" \in fails THEN 500
    ELSE request_conversation_response(u, m)

\* the writes of request_conversation_service once its checks have passed: the
\* update_one filters on the document's _id alone
request_conversation_write(u, m, fails) ==
    /\ conversations' = [conversations EXCEPT ![m].status = "requested",
                                                  ![m].requestedAt = now]
    /\ supabase' = update_conversation_status_in_supabase(m, "requested")
    /\ notifications' = create_notification_service(fails,
                            <<conversations[m].receiverId, "request", m>>)
    /\ UNCHANGED <<now, isMatchmaking, last_matchmaking_time, matches, messages,
                   redis_published, events, sweepList>>

\* request_conversation_service, with the steps in `fails` raising
request_conversation_with(u, m, fails) ==
    IF request_conversation_check(u, m) = 201
    THEN request_conversation_write(u, m, fails)
    ELSE UNCHANGED lifeVars

\* request_conversation_service when nothing raises
request_conversation_service(u, m) == request_conversation_with(u, m, {})

\* what accept_conversation_service raises inside its try block (200: none)
accept_conversation_check(u, m) ==
    IF ~HasMatch(m) THEN 404
    ELSE IF MatchExpired(m) THEN 410
    ELSE IF u \notin {matches[m].user_1_regno, matches[m].user_2_regno} THEN 403
    ELSE IF ~HasConversation(m) THEN 404
    ELSE IF conversations[m].receiverId # u THEN 403
    ELSE IF conversations[m].status = "accepted" THEN 409
    ELSE IF conversations[m].status # "requested" THEN 400
    ELSE 200

accept_conversation_response(u, m) ==
    wrap_exception(accept_conversation_check(u, m), 200)

\* the status seen by the caller when the steps in `fails` raise: a notification
\* insert that raises is caught by the outer `except Exception` as well
accept_conversation_outcome(u, m, fails) ==
    IF accept_conversation_check(u, m) = 200 /\ "notification" \in fails THEN 500
    ELSE accept_conversation_response(u, m)

\* the writes of accept_conversation_service once its checks have passed: the
\* update_one filters on the document's _id alone
accept_conversation_write(u, m, fails) ==
    /\ conversations' = [conversations EXCEPT ![m].status = "accepted",
                                                  ![m].acceptedAt = now]
    /\ supabase' = update_conversation_status_in_supabase(m, "accepted")
    /\ notifications' = create_notification_service(fails,
                            <<conversations[m].initiatorId, "accepted", m>>)
    /\ UNCHANGED <<now, isMatchmaking, last_matchmaking_time, matches, messages,
                   redis_published, events, sweepList>>

\* accept_conversation_service, with the steps in `fails` raising
accept_conversation_with(u, m, fails) ==
    IF accept_conversation_check(u, m) = 200
    THEN accept_conversation_write(u, m, fails)
    ELSE UNCHANGED lifeVars

\* accept_conversation_service when nothing raises
accept_conversation_service(u, m) == accept_conversation_with(u, m, {})

\* what reject_conversation_service raises inside its try block (200: none)
reject_conversation_check(u, m) ==
    IF ~HasMatch(m) THEN 404
    ELSE IF MatchExpired(m) THEN 410
    ELSE IF u \notin {matches[m].user_1_regno, matches[m].user_2_regno} THEN 403
    ELSE IF ~HasConversation(m) THEN 404
    ELSE IF conversations[m].receiverId # u THEN 403
    ELSE IF conversations[m].status # "requested" THEN 409
    ELSE 200

reject_conversation_response(u, m) ==
    wrap_exception(reject_conversation_check(u, m), 200)

\* the status seen by the caller when the steps in `fails` raise: a notification
\* insert that raises is caught by the outer `except Exception` as well
reject_conversation_outcome(u, m, fails) ==
    IF reject_conversation_check(u, m) = 200 /\ "notification" \in fails THEN 500
    ELSE reject_conversation_response(u, m)

\* the writes of reject_conversation_service once its checks have passed: the
\* update_one filters on the document's _id alone
reject_conversation_write(u, m, fails) ==
    /\ conversations' = [conversations EXCEPT ![m].status = "rejected"]
    /\ supabase' = update_conversation_status_in_supabase(m, "rejected")
    /\ notifications' = create_notification_service(fails,
                            <<conversations[m].initiatorId, "rejected", m>>)
    /\ UNCHANGED <<now, isMatchmaking, last_matchmaking_time, matches, messages,
                   redis_published, events, sweepList>>

\* reject_conversation_service, with the steps in `fails` raising
reject_conversation_with(u, m, fails) ==
    IF reject_conversation_check(u, m) = 200
    THEN reject_conversation_write(u, m, fails)
    ELSE UNCHANGED lifeVars

\* reject_conversation_service when nothing raises
reject_conversation_service(u, m) == reject_conversation_with(u, m, {})

(* ------------------------------ read path ----------------------------- *)
\* no supabase_token in the response
NoCredential == [user_id |-> NoUser, conversation_id |-> 0, expires_in_hours |-> 0]

\* max(1, int(time_until_expiry) + 1), with time_until_expiry in hours
expires_in_hours(m) ==
    LET whole == ((matches[m].expires_at - now) * TickSeconds) \div 3600 + 1
    IN IF whole < 1 THEN 1 ELSE whole

\* supabase_service.generate_ephemeral_token for the match's Supabase row
generate_ephemeral_token(u, m) ==
    [user_id |-> u, conversation_id |-> m, expires_in_hours |-> expires_in_hours(m)]

\* what get_supabase_token_service raises inside its try block (200: none)
get_supabase_token_check(u, m) ==
    IF ~HasMatch(m) THEN 404
    ELSE IF MatchExpired(m) THEN 410
    ELSE IF u \notin {matches[m].user_1_regno, matches[m].user_2_regno} THEN 403
    ELSE IF ~HasConversation(m) THEN 404
    ELSE IF conversations[m].status # "accepted" THEN 403
    ELSE IF ~HasRow(m) THEN 500
    ELSE 200

\* the HTTP status the caller of get_supabase_token_service sees
get_supabase_token_response(u, m) ==
    wrap_exception(get_supabase_token_check(u, m), 200)

\* the credential get_supabase_token_service returns
get_supabase_token_service(u, m) ==
    IF get_supabase_token_check(u, m) = 200
    THEN generate_ephemeral_token(u, m)
    ELSE NoCredential

\* the documents find_one may return as current_match: a match the user
\* initiated with expires_at > now or, when there is none, the one with the
\* greatest expires_at among those the user initiated
current_match(u) ==
    LET mine == {m \in 1..Len(matches) : matches[m].user_1_regno = u}
        active == {m \in mine : matches[m].expires_at > now}
    IN IF active # {} THEN active
       ELSE {m \in mine : \A k \in mine : matches[k].expires_at <= matches[m].expires_at}

\* is_expired of get_current_conversation_service for the match it picked
is_expired(m) ==
    IF matches[m].expires_at > now THEN FALSE ELSE now > matches[m].expires_at

\* mutation of the token condition: the expiry of the match not looked at
token_condition_any_time(m) ==
    conversations[m].status = "accepted"

\* `conversation.status == "accepted" and not is_expired`
token_condition(m) ==
    conversations[m].status = "accepted" /\ ~is_expired(m)

\* the credential in the response of get_current_conversation_service when
\* find_one picked match m
get_current_conversation_service(u, m) ==
    IF HasConversation(m) /\ token_condition(m) /\ HasRow(m)
    THEN generate_ephemeral_token(u, m)
    ELSE NoCredential

(* ----------------------------- thread pool ---------------------------- *)
\* the worker threads FastAPI runs the synchronous (`def`) routes on
Threads == {"t1", "t2"}

\* a worker thread with no call in hand
Idle == [op |-> "idle", user |-> NoUser, match |-> 0, partner |-> NoUser]

\* the checks of a transition's service have all passed
transition_passes(op, u, m) ==
    CASE op = "request" -> request_conversation_check(u, m) = 201
      [] op = "accept" -> accept_conversation_check(u, m) = 200
      [] op = "reject" -> reject_conversation_check(u, m) = 200

\* a transition's service up to its last read: the match and the conversation
\* are fetched with find_one and checked, nothing is written yet
transition_read(t, op, u, m) ==
    /\ threads[t] = Idle
    /\ transition_passes(op, u, m)
    /\ threads' = [threads EXCEPT
           ![t] = [op |-> op, user |-> u, match |-> m, partner |-> NoUser]]
    /\ UNCHANGED lifeVars

\* the rest of the service: the update_one and what follows it
transition_write(t) ==
    LET call == threads[t] IN
    /\ call.op \in {"request", "accept", "reject"}
    /\ CASE call.op = "request" -> request_conversation_write(call.user, call.match, {})
         [] call.op = "accept" -> accept_conversation_write(call.user, call.match, {})
         [] call.op = "reject" -> reject_conversation_write(call.user, call.match, {})
    /\ threads' = [threads EXCEPT ![t] = Idle]

\* find_match_service up to the $sample: the cooldown check on the user
\* document loaded for the request, the count and the pick of a candidate
find_match_read(t, u) ==
    /\ threads[t] = Idle
    /\ find_match_response(u) = 200
    /\ \E v \in candidates(u) :
           threads' = [threads EXCEPT
               ![t] = [op |-> "find", user |-> u, match |-> 0, partner |-> v]]
    /\ UNCHANGED lifeVars

\* the rest of find_match_service: the insert of the match and what follows
find_match_insert(t) ==
    /\ threads[t].op = "find"
    /\ find_match_write(threads[t].user, threads[t].partner, {})
    /\ threads' = [threads EXCEPT ![t] = Idle]

(* ------------------------------- admin -------------------------------- *)
\* the HTTP status of POST /admin/conversations/{id}/terminate
terminate_conversation_response(m) ==
    IF ~HasConversation(m) THEN 404 ELSE 200

\* SupabaseService.terminate_conversation
supabase_terminate_conversation(m) ==
    IF HasRow(m)
    THEN [supabase EXCEPT ![m] = [status |-> "terminated", is_blocked |-> TRUE,
                                  blocked_by |-> "admin"]]
    ELSE supabase

terminate_conversation(m) ==
    IF terminate_conversation_response(m) = 200 THEN
        /\ conversations' = [conversations EXCEPT ![m].status = "terminated",
                                                  ![m].terminatedAt = now]
        /\ matches' = [matches EXCEPT ![m].expires_at = now]
        /\ supabase' = supabase_terminate_conversation(m)
        /\ UNCHANGED <<now, isMatchmaking, last_matchmaking_time, messages,
                       notifications, redis_published, events, sweepList>>
    ELSE UNCHANGED lifeVars

status_mapping ==
    [approved |-> "accepted", rejected |-> "rejected", pending |-> "pending"]

\* the HTTP status of PUT /admin/matchmaking/{match_id}/status
update_matchmaking_status_response(m) ==
    IF ~HasMatch(m) THEN 404
    ELSE IF ~HasConversation(m) THEN 404
    ELSE 200

update_matchmaking_status(m, status_value) ==
    IF update_matchmaking_status_response(m) = 200 THEN
        LET new_status == status_mapping[status_value] IN
        /\ conversations' = [conversations EXCEPT
               ![m].status = new_status,
               ![m].acceptedAt = IF new_status = "accepted" THEN now ELSE NoTime]
        /\ UNCHANGED <<now, isMatchmaking, last_matchmaking_time, matches, supabase,
                       messages, notifications, redis_published, events, sweepList>>
    ELSE UNCHANGED lifeVars

(* --------------------------- block / unblock -------------------------- *)
\* SupabaseService.block_conversation: TRUE when a row was updated
block_conversation_result(m, blocked_by) == HasRow(m)

block_conversation(m, blocked_by) ==
    IF block_conversation_result(m, blocked_by) THEN
        /\ supabase' = [supabase EXCEPT ![m].is_blocked = TRUE,
                                        ![m].blocked_by = blocked_by]
        /\ UNCHANGED <<now, isMatchmaking, last_matchmaking_time, matches,
                       conversations, messages, notifications, redis_published,
                       events, sweepList>>
    ELSE UNCHANGED lifeVars

\* SupabaseService.unblock_conversation: TRUE when the row was unblocked
unblock_conversation_result(m, user_id) ==
    HasRow(m) /\ supabase[m].blocked_by = user_id

unblock_conversation(m, user_id) ==
    IF unblock_conversation_result(m, user_id) THEN
        /\ supabase' = [supabase EXCEPT ![m].is_blocked = FALSE,
                                        ![m].blocked_by = NoUser]
        /\ UNCHANGED <<now, isMatchmaking, last_matchmaking_time, matches,
                       conversations, messages, notifications, redis_published,
                       events, sweepList>>
    ELSE UNCHANGED lifeVars

(* ------------------------------ messages ------------------------------ *)
\* what validate_conversation_participant raises (200: it returns the document)
validate_conversation_participant(c, u) ==
    IF ~HasConversation(c) THEN 404
    ELSE IF u \notin {conversations[c].initiatorId, conversations[c].receiverId} THEN 403
    ELSE IF conversations[c].status # "accepted" THEN 403
    ELSE IF now > conversations[c].createdAt + Hours(CONVERSATION_EXPIRY_HOURS) THEN 403
    ELSE 200

\* the HTTP status of POST /messages/send
send_message_response(c, u) ==
    IF validate_conversation_participant(c, u) # 200
    THEN validate_conversation_participant(c, u)
    ELSE IF conversations[c].isBlocked THEN 403
    ELSE 201

send_message(c, u) ==
    /\ Len(messages) < MaxMessages
    /\ IF send_message_response(c, u) = 201 THEN
           LET receiver_id == IF conversations[c].initiatorId = u
                              THEN conversations[c].receiverId
                              ELSE conversations[c].initiatorId
           IN
           /\ messages' = Append(messages,
                  [conversation_id |-> c, sender_id |-> u, receiver_id |-> receiver_id,
                   timestamp |-> now, read |-> FALSE])
           /\ conversations' = [conversations EXCEPT ![c].last_message_at = now]
           /\ redis_published' = redis_published \cup {Len(messages) + 1}
           /\ UNCHANGED <<now, isMatchmaking, last_matchmaking_time, matches, supabase,
                          notifications, events, sweepList>>
       ELSE UNCHANGED lifeVars

\* the steps of send_message that can raise: insert_one of the Message, update_one
\* of the preview, the publish of the Redis client
MessageFailures == {"insert", "preview", "publish"}

\* RedisService.publish_message: the ids on the conversation channel afterwards; an
\* exception of the client is caught and logged, the call returns False
publish_message(fails, id) ==
    IF "publish" \in fails THEN redis_published ELSE redis_published \cup {id}

\* the status seen by the caller when the steps in `fails` raise: every exception
\* of publish is caught in publish_message
send_message_outcome_publish_raises(c, u, fails) ==
    IF send_message_response(c, u) = 201 /\ fails # {} THEN 500
    ELSE send_message_response(c, u)

\* the status seen by the caller when the steps in `fails` raise: the return value
\* of publish_message is not read, an exception of a database write propagates
send_message_outcome(c, u, fails) ==
    IF send_message_response(c, u) = 201 /\ fails \cap {"insert", "preview"} # {} THEN 500
    ELSE send_message_response(c, u)

\* send_message, with the steps in `fails` raising: insert, preview, publish in
\* this order, a raising step ends the call
send_message_with(c, u, fails) ==
    /\ Len(messages) < MaxMessages
    /\ IF send_message_response(c, u) = 201 /\ "insert" \notin fails THEN
           LET receiver_id == IF conversations[c].initiatorId = u
                              THEN conversations[c].receiverId
                              ELSE conversations[c].initiatorId
           IN
           /\ messages' = Append(messages,
                  [conversation_id |-> c, sender_id |-> u, receiver_id |-> receiver_id,
                   timestamp |-> now, read |-> FALSE])
           /\ IF "preview" \in fails
              THEN UNCHANGED <<conversations, redis_published>>
              ELSE /\ conversations' = [conversations EXCEPT ![c].last_message_at = now]
                   /\ redis_published' = publish_message(fails, Len(messages) + 1)
           /\ UNCHANGED <<now, isMatchmaking, last_matchmaking_time, matches, supabase,
                          notifications, events, sweepList>>
       ELSE UNCHANGED lifeVars

\* the HTTP status of GET /messages/{conversation_id}: the validation of send,
\* without the block check
get_messages_response(c, u) ==
    IF validate_conversation_participant(c, u) # 200
    THEN validate_conversation_participant(c, u)
    ELSE 200

\* the ids of the conversation's messages, oldest first (messages are stored in
\* the order of their timestamps)
conversation_messages(c) ==
    SelectSeq([i \in 1..Len(messages) |-> i],
              LAMBDA i : messages[i].conversation_id = c)

\* find(...).sort("timestamp", 1).limit(limit): what a successful fetch returns
get_messages_result(c, limit) ==
    SubSeq(conversation_messages(c), 1,
           IF limit < Len(conversation_messages(c))
           THEN limit ELSE Len(conversation_messages(c)))

\* mutation of the update_many filter: the receiver_id condition dropped
mark_read_filter_any_receiver(msg, c, u) ==
    /\ msg.conversation_id = c
    /\ ~msg.read

\* the filter of the update_many that marks messages as read
mark_read_filter(msg, c, u) ==
    /\ msg.conversation_id = c
    /\ msg.receiver_id = u
    /\ ~msg.read

get_messages(c, u) ==
    IF get_messages_response(c, u) = 200 THEN
        /\ messages' = [i \in 1..Len(messages) |->
                           IF mark_read_filter(messages[i], c, u)
                           THEN [messages[i] EXCEPT !.read = TRUE]
                           ELSE messages[i]]
        /\ UNCHANGED <<now, isMatchmaking, last_matchmaking_time, matches,
                       conversations, supabase, notifications, redis_published,
                       events, sweepList>>
    ELSE UNCHANGED lifeVars

\* TRUE when db.message_reports holds a report of the message by the reporter
existing_report(msg, u) ==
    \E i \in 1..Len(message_reports) :
        /\ message_reports[i].message_id = msg
        /\ message_reports[i].reporter_id = u

\* the HTTP status of POST /messages/report
report_message_response(msg, u) ==
    IF msg \notin 1..Len(messages) THEN 404
    ELSE IF messages[msg].receiver_id # u THEN 403
    ELSE IF \/ ~HasConversation(messages[msg].conversation_id)
            \/ conversations[messages[msg].conversation_id].status # "accepted" THEN 403
    ELSE IF existing_report(msg, u) THEN 409
    ELSE 201

\* mutation of the report document: the reporter stored as the reported user
reported_user_id_receiver(msg) == messages[msg].receiver_id

\* report_doc["reported_user_id"]
reported_user_id(msg) == messages[msg].sender_id

report_message(msg, u) ==
    IF report_message_response(msg, u) = 201 THEN
        /\ message_reports' = Append(message_reports,
               [message_id |-> msg,
                conversation_id |-> messages[msg].conversation_id,
                reporter_id |-> u,
                reported_user_id |-> reported_user_id(msg),
                reported_at |-> now,
                status |-> "pending"])
    ELSE UNCHANGED message_reports

\* report_message up to its duplicate check: the message, the conversation
\* and db.message_reports have been read and no check has raised
report_message_read(t, msg, u) ==
    /\ threads[t] = Idle
    /\ report_message_response(msg, u) = 201
    /\ threads' = [threads EXCEPT
           ![t] = [op |-> "report", user |-> u, match |-> msg, partner |-> NoUser]]
    /\ UNCHANGED message_reports

\* mutation of the start-up: idx_unique_message_report not created
insert_allowed_without_index(msg, u) == TRUE

\* the unique index on (message_id, reporter_id) created at start-up lets
\* insert_one through only when no document has the pair
insert_allowed(msg, u) == ~existing_report(msg, u)

\* the HTTP status of the call once insert_one has run: DuplicateKeyError is
\* caught nowhere
report_message_insert_response(msg, u) ==
    IF insert_allowed(msg, u) THEN 201 ELSE 500

\* the rest of report_message: insert_one on db.message_reports
report_message_insert(t) ==
    LET msg == threads[t].match
        u == threads[t].user
    IN
    /\ threads[t].op = "report"
    /\ IF insert_allowed(msg, u)
       THEN message_reports' = Append(message_reports,
                [message_id |-> msg,
                 conversation_id |-> messages[msg].conversation_id,
                 reporter_id |-> u,
                 reported_user_id |-> reported_user_id(msg),
                 reported_at |-> now,
                 status |-> "pending"])
       ELSE UNCHANGED message_reports
    /\ threads' = [threads EXCEPT ![t] = Idle]

(* ------------------------------ sweeper ------------------------------- *)
\* matchmaking_service.get_active_matches: the documents with expires_at > now,
\* in insertion order, as read at the time of the query
RECURSIVE active_from(_)
active_from(i) ==
    IF i > Len(matches) THEN <<>>
    ELSE IF matches[i].expires_at > now
         THEN <<[id |-> i, expires_at |-> matches[i].expires_at]>> \o active_from(i + 1)
         ELSE active_from(i + 1)

get_active_matches == active_from(1)

\* conversation_service.update_conversation_status
update_conversation_status(m, st) ==
    IF HasConversation(m) THEN [conversations EXCEPT ![m].status = st]
    ELSE conversations

\* the matches a pass starting now finds overdue with an accepted conversation
overdue_accepted ==
    {m \in 1..Len(matches) : /\ matches[m].expires_at < now
                             /\ HasConversation(m)
                             /\ conversations[m].status = "accepted"}

\* one pass of the `while True` loop starts: the query
sweeper_query ==
    /\ sweepPc = "sleep"
    /\ sweepPc' = "loop"
    /\ sweepList' = get_active_matches
    /\ sweepOwed' = overdue_accepted
    /\ UNCHANGED <<now, isMatchmaking, last_matchmaking_time, matches, conversations,
                   supabase, messages, notifications, redis_published, events>>

\* the body of `for match in active_matches` for the next match of the pass
sweeper_process ==
    /\ sweepPc = "loop"
    /\ sweepList # <<>>
    /\ LET match == Head(sweepList)
           m == match.id
           time_left_seconds == (match.expires_at - now) * TickSeconds
       IN
       /\ IF time_left_seconds <= 0 THEN
              IF HasConversation(m) /\ conversations[m].status = "accepted" THEN
                  /\ conversations' = update_conversation_status(m, "expired")
                  /\ events' = events \cup {<<"match_expired", m>>,
                                            <<"conversation_status_update", m>>}
              ELSE
                  /\ events' = events \cup {<<"match_expired", m>>}
                  /\ UNCHANGED conversations
          ELSE IF time_left_seconds <= EXPIRY_WARNING_SECONDS THEN
              /\ events' = events \cup {<<"match_expiry_warning", m>>}
              /\ UNCHANGED conversations
          ELSE UNCHANGED <<conversations, events>>
       /\ sweepList' = Tail(sweepList)
    /\ UNCHANGED <<now, isMatchmaking, last_matchmaking_time, matches, supabase,
                   messages, notifications, redis_published, sweepPc, sweepOwed>>

\* the pass is over: await asyncio.sleep(30)
sweeper_sleep ==
    /\ sweepPc = "loop"
    /\ sweepList = <<>>
    /\ sweepPc' = "sleep"
    /\ UNCHANGED <<lifeVars, sweepOwed>>

\* the filter {"expires_at": {"$gt": current_time}} of get_active_matches, of
\* the current-match query and of the received-list query
active_query(m) == matches[m].expires_at > now

\* `time_left_seconds <= 0`, the sweeper's test on a match of its list
sweeper_expired(m) == (matches[m].expires_at - now) * TickSeconds <= 0

(* ------------------------------- clock -------------------------------- *)
\* the instant at which a match created at 0 enters the sweeper's warning window
QuietUntil == Hours(MATCH_EXPIRY_HOURS) - (EXPIRY_WARNING_SECONDS \div TickSeconds)

Tick ==
    /\ now < MaxNow
    /\ now' = IF now < QuietUntil THEN QuietUntil ELSE now + 1
    /\ UNCHANGED <<isMatchmaking, last_matchmaking_time, matches, conversations,
                   supabase, messages, notifications, redis_published, events,
                   sweepList>>

(* ------------------------- connection manager ------------------------- *)
\* dictionaries are functions whose domain is the set of keys present
dict_put(d, k, v) == [x \in DOMAIN d \cup {k} |-> IF x = k THEN v ELSE d[x]]

dict_pop(d, k) == [x \in DOMAIN d \ {k} |-> d[x]]

\* `if k not in d: d[k] = set()` then `d[k].add(ws)`
set_add(d, k, ws) ==
    dict_put(d, k, (IF k \in DOMAIN d THEN d[k] ELSE {}) \cup {ws})

\* mutation of the removal: the key kept when its set becomes empty
set_discard_keep_empty(d, k, ws) ==
    IF k \notin DOMAIN d THEN d
    ELSE dict_put(d, k, d[k] \ {ws})

\* `d[k].discard(ws)` then `if not d[k]: del d[k]`, when k is a key of d
set_discard(d, k, ws) ==
    IF k \notin DOMAIN d THEN d
    ELSE IF d[k] \ {ws} = {} THEN dict_pop(d, k)
    ELSE dict_put(d, k, d[k] \ {ws})

\* ConnectionManager.__init__, no socket opened yet, no broadcast made
InitConnectionManager ==
    /\ active_connections = <<>>
    /\ user_connections = <<>>
    /\ websocket_users = <<>>
    /\ websocket_matches = <<>>
    /\ lock = "free"
    /\ sock = [ws \in Sockets |-> "new"]
    /\ broadcast = [pc |-> "idle", match_id |-> 0, current_connections |-> {},
                    todo |-> {}, log |-> <<>>]

\* connect: the registration runs under the lock, without an await inside
connect(ws, user_id, match_id) ==
    /\ sock[ws] = "new"
    /\ lock = "free"
    /\ sock' = [sock EXCEPT ![ws] = "open"]
    /\ active_connections' = set_add(active_connections, match_id, ws)
    /\ user_connections' = set_add(user_connections, user_id, ws)
    /\ websocket_users' = dict_put(websocket_users, ws, user_id)
    /\ websocket_matches' = dict_put(websocket_matches, ws, match_id)
    /\ UNCHANGED <<lock, broadcast>>

\* the peer goes away: from now on send_text on the socket raises
peer_close(ws) ==
    /\ sock[ws] = "open"
    /\ sock' = [sock EXCEPT ![ws] = "closed"]
    /\ UNCHANGED <<active_connections, user_connections, websocket_users,
                   websocket_matches, lock, broadcast>>

\* disconnect (synchronous, takes no lock), called by the socket's handler
\* once its peer is gone
disconnect(ws) ==
    /\ sock[ws] = "closed"
    /\ ws \in DOMAIN websocket_matches
    /\ active_connections' =
           set_discard(active_connections, websocket_matches[ws], ws)
    /\ user_connections' = set_discard(user_connections, websocket_users[ws], ws)
    /\ websocket_users' = dict_pop(websocket_users, ws)
    /\ websocket_matches' = dict_pop(websocket_matches, ws)
    /\ UNCHANGED <<lock, sock, broadcast>>

\* mutation of the except branch: the failure ends the loop
after_send_failure_abort(rest) == {}

\* the except branch of the send loop records the socket and the loop goes on
\* with the connections still to serve
after_send_failure(rest) == rest

\* the sockets the call of `b` sent to, and those whose send raised
delivered(b) == {b.log[i].ws : i \in {j \in DOMAIN b.log : b.log[j].ok}}

disconnected_websockets(b) ==
    {b.log[i].ws : i \in {j \in DOMAIN b.log : ~b.log[j].ok}}

\* broadcast_to_match up to the copy of the connection set: nothing to do when
\* the match has no connection, else the lock is taken and the set copied
broadcast_to_match(match_id) ==
    /\ broadcast.pc = "idle"
    /\ lock = "free"
    /\ IF match_id \notin DOMAIN active_connections
       THEN UNCHANGED <<lock, broadcast>>
       ELSE /\ lock' = "held"
            /\ broadcast' = [pc |-> "send", match_id |-> match_id,
                             current_connections |-> active_connections[match_id],
                             todo |-> active_connections[match_id],
                             log |-> <<>>]
    /\ UNCHANGED <<active_connections, user_connections, websocket_users,
                   websocket_matches, sock>>

\* one iteration of `for websocket in current_connections`
broadcast_send ==
    /\ broadcast.pc = "send"
    /\ \E ws \in broadcast.todo :
          LET ok == sock[ws] = "open"
              rest == broadcast.todo \ {ws} IN
          broadcast' = [broadcast EXCEPT
                            !.log = Append(@, [ws |-> ws, ok |-> ok]),
                            !.todo = IF ok THEN rest ELSE after_send_failure(rest)]
    /\ UNCHANGED <<active_connections, user_connections, websocket_users,
                   websocket_matches, lock, sock>>

\* after the loop: with no failed socket the lock is released; with one,
\* disconnect_async waits for the lock this very call holds, for ever
broadcast_cleanup ==
    /\ broadcast.pc = "send"
    /\ broadcast.todo = {}
    /\ IF disconnected_websockets(broadcast) = {}
       THEN /\ lock' = "free"
            /\ broadcast' = [broadcast EXCEPT !.pc = "idle"]
       ELSE /\ broadcast' = [broadcast EXCEPT !.pc = "blocked"]
            /\ UNCHANGED lock
    /\ UNCHANGED <<active_connections, user_connections, websocket_users,
                   websocket_matches, sock>>

\* no broadcast_to_match call has had to wait for the lock yet
NoWaiter == [pc |-> "none", match_id |-> 0]

\* a second broadcast_to_match call: its membership test, made without the
\* lock, passes, and `async with self._lock` suspends it behind the call that
\* holds the lock
broadcast_to_match_wait(match_id) ==
    /\ waiter.pc # "waiting"
    /\ match_id \in DOMAIN active_connections
    /\ lock = "held"
    /\ waiter' = [pc |-> "waiting", match_id |-> match_id]
    /\ UNCHANGED wsVars

\* the waiting call is given the lock and evaluates
\* self.active_connections[match_id]: a KeyError when disconnect has deleted
\* the key in the meantime, which leaves the call and releases the lock
broadcast_to_match_resume ==
    /\ waiter.pc = "waiting"
    /\ lock = "free"
    /\ IF waiter.match_id \in DOMAIN active_connections
       THEN /\ lock' = "held"
            /\ broadcast' = [pc |-> "send", match_id |-> waiter.match_id,
                             current_connections |-> active_connections[waiter.match_id],
                             todo |-> active_connections[waiter.match_id],
                             log |-> <<>>]
            /\ waiter' = [waiter EXCEPT !.pc = "entered"]
       ELSE /\ waiter' = [waiter EXCEPT !.pc = "raised"]
            /\ UNCHANGED <<lock, broadcast>>
    /\ UNCHANGED <<active_connections, user_connections, websocket_users,
                   websocket_matches, sock>>

\* the frames a client can send: the three the receive loop knows, a JSON
\* object of another type, text that is not JSON, and JSON that is not an object
Frames == {"ping", "typing", "message_sent", "unknown", "malformed", "not_object"}

\* how one pass of the receive loop ends for a frame: json.loads raises
\* JSONDecodeError on text that is not JSON (continue); message_data.get raises
\* AttributeError on JSON that is not an object, which the generic except
\* answers with break; every other frame reaches the end of the loop body
frame_outcome(kind) ==
    CASE kind = "malformed" -> "continue"
      [] kind = "not_object" -> "break"
      [] OTHER -> "next"

\* one pass of the receive loop of handle_websocket_connection for a frame
\* that starts no broadcast (ping and message_sent answer on the socket
\* itself); after a break the finally clause runs manager.disconnect and the
\* connection is over
handler_frame(ws, kind) ==
    /\ kind # "typing"
    /\ sock[ws] = "open"
    /\ ws \in DOMAIN websocket_matches
    /\ IF frame_outcome(kind) = "break"
       THEN /\ active_connections' =
                   set_discard(active_connections, websocket_matches[ws], ws)
            /\ user_connections' =
                   set_discard(user_connections, websocket_users[ws], ws)
            /\ websocket_users' = dict_pop(websocket_users, ws)
            /\ websocket_matches' = dict_pop(websocket_matches, ws)
            /\ sock' = [sock EXCEPT ![ws] = "closed"]
       ELSE UNCHANGED <<active_connections, user_connections, websocket_users,
                        websocket_matches, sock>>
    /\ UNCHANGED <<lock, broadcast>>

\* no broadcast_to_user call made yet
NoUserBroadcast ==
    [pc |-> "idle", user_id |-> NoUser, exclude_websocket |-> 0, size |-> 0,
     visited |-> {}, disconnected_websockets |-> {}, stale |-> FALSE,
     raised |-> FALSE]

\* broadcast_to_user up to its loop: nothing to do when the user has no
\* connection, else the iteration over the user's own set begins
broadcast_to_user(user_id, exclude_websocket) ==
    /\ user_broadcast.pc = "idle"
    /\ IF user_id \notin DOMAIN user_connections
       THEN UNCHANGED user_broadcast
       ELSE user_broadcast' =
                [pc |-> "send", user_id |-> user_id,
                 exclude_websocket |-> exclude_websocket,
                 size |-> Cardinality(user_connections[user_id]),
                 visited |-> {}, disconnected_websockets |-> {},
                 stale |-> FALSE, raised |-> FALSE]

\* the set object the loop of broadcast_to_user iterates: the user's entry, or
\* the emptied set once disconnect has deleted the entry
iterated_set ==
    IF user_broadcast.stale \/ user_broadcast.user_id \notin DOMAIN user_connections
    THEN {}
    ELSE user_connections[user_broadcast.user_id]

\* the set iterator raises RuntimeError when the set changed size since the
\* loop began
set_changed_size == Cardinality(iterated_set) # user_broadcast.size

\* one iteration of `for websocket in self.user_connections[user_id]`
broadcast_user_send ==
    /\ user_broadcast.pc = "send"
    /\ ~set_changed_size
    /\ \E ws \in iterated_set \ user_broadcast.visited :
          user_broadcast' =
              [user_broadcast EXCEPT
                  !.visited = @ \cup {ws},
                  !.disconnected_websockets =
                      IF ws # user_broadcast.exclude_websocket /\ sock[ws] # "open"
                      THEN @ \cup {ws} ELSE @]

\* the RuntimeError leaves broadcast_to_user before its clean-up loop
broadcast_user_raise ==
    /\ user_broadcast.pc = "send"
    /\ set_changed_size
    /\ user_broadcast' = [user_broadcast EXCEPT !.pc = "idle", !.raised = TRUE]

\* after the loop: disconnect (synchronous) for every socket whose send raised
broadcast_user_cleanup ==
    /\ user_broadcast.pc = "send"
    /\ ~set_changed_size
    /\ iterated_set \ user_broadcast.visited = {}
    /\ LET gone == user_broadcast.disconnected_websockets \cap DOMAIN websocket_matches
           left(d, key) ==
               [k \in {x \in DOMAIN d : d[x] \ {ws \in gone : key[ws] = x} # {}} |->
                   d[k] \ {ws \in gone : key[ws] = k}]
       IN
       /\ active_connections' = left(active_connections, websocket_matches)
       /\ user_connections' = left(user_connections, websocket_users)
       /\ websocket_users' = [ws \in DOMAIN websocket_users \ gone |-> websocket_users[ws]]
       /\ websocket_matches' =
              [ws \in DOMAIN websocket_matches \ gone |-> websocket_matches[ws]]
    /\ user_broadcast' = [user_broadcast EXCEPT !.pc = "idle"]

\* disconnect deleting the entry of the user whose set a broadcast_to_user is
\* iterating: the loop is left with the emptied set
entry_deleted(ws) ==
    /\ user_broadcast.pc = "send"
    /\ ws \in DOMAIN websocket_users
    /\ websocket_users[ws] = user_broadcast.user_id
    /\ websocket_users[ws] \in DOMAIN user_connections
    /\ user_connections[websocket_users[ws]] \ {ws} = {}

(* -------------------------- sweeper, stepwise ------------------------- *)
(* the sweeper's loop body, one step per database call and per broadcast: sweepPc
   tells where the coroutine stands while it handles Head(sweepList)
     "update"            the conversation was read as accepted, the write is next
     "expired_accepted"  broadcast_match_expired is next, the status update follows
     "status"            broadcast_conversation_status_update is next
     "expired_other"     broadcast_match_expired of the else branch is next
     "warning"           broadcast_match_expiry_warning is next                  *)

\* the previous `await manager.broadcast_to_match` has returned
broadcast_returned == broadcast.pc = "idle"

\* the loop body up to get_conversation_by_match_id and the test of the status
sweeper_read ==
    /\ sweepPc = "loop"
    /\ sweepList # <<>>
    /\ broadcast_returned
    /\ LET match == Head(sweepList)
           m == match.id
           time_left_seconds == (match.expires_at - now) * TickSeconds
       IN
       IF time_left_seconds <= 0 THEN
           /\ sweepPc' = IF HasConversation(m) /\ conversations[m].status = "accepted"
                         THEN "update" ELSE "expired_other"
           /\ UNCHANGED sweepList
       ELSE IF time_left_seconds <= EXPIRY_WARNING_SECONDS THEN
           /\ sweepPc' = "warning"
           /\ UNCHANGED sweepList
       ELSE
           /\ sweepList' = Tail(sweepList)
           /\ UNCHANGED sweepPc
    /\ UNCHANGED <<now, isMatchmaking, last_matchmaking_time, matches, conversations,
                   supabase, messages, notifications, redis_published, events,
                   sweepOwed>>

\* update_conversation_status(match_id, "expired", db): the filter is the
\* matchId alone
sweeper_update ==
    /\ sweepPc = "update"
    /\ conversations' = update_conversation_status(Head(sweepList).id, "expired")
    /\ sweepPc' = "expired_accepted"
    /\ UNCHANGED <<now, isMatchmaking, last_matchmaking_time, matches, supabase,
                   messages, notifications, redis_published, events, sweepList,
                   sweepOwed>>

\* the event each broadcast helper sends, by the place of the call
sweeper_event(pc) ==
    CASE pc \in {"expired_accepted", "expired_other"} -> "match_expired"
      [] pc = "status" -> "conversation_status_update"
      [] pc = "warning" -> "match_expiry_warning"

\* one `await manager.broadcast_*`: the event is handed to broadcast_to_match,
\* which the coroutine then waits for
sweeper_announce ==
    /\ sweepPc \in {"expired_accepted", "status", "expired_other", "warning"}
    /\ events' = events \cup {<<sweeper_event(sweepPc), Head(sweepList).id>>}
    /\ broadcast_to_match(Head(sweepList).id)
    /\ IF sweepPc = "expired_accepted"
       THEN sweepPc' = "status" /\ UNCHANGED sweepList
       ELSE sweepPc' = "loop" /\ sweepList' = Tail(sweepList)
    /\ UNCHANGED <<now, isMatchmaking, last_matchmaking_time, matches, conversations,
                   supabase, messages, notifications, redis_published, sweepOwed>>

\* the loop body raises on a record it cannot handle: `except Exception` logs
\* and goes on with the next match
sweeper_skip ==
    /\ sweepPc = "loop"
    /\ sweepList # <<>>
    /\ broadcast_returned
    /\ sweepList' = Tail(sweepList)
    /\ UNCHANGED <<now, isMatchmaking, last_matchmaking_time, matches, conversations,
                   supabase, messages, notifications, redis_published, events,
                   sweepPc, sweepOwed>>

(* --------------------------- specification ---------------------------- *)
\* the state after start-up, with the isMatchmaking flags drawn from `choices`
InitWith(choices) ==
    /\ now = 0
    /\ isMatchmaking \in {[u \in Users |-> u \in s] : s \in choices}
    /\ last_matchmaking_time = [u \in Users |-> NoTime]
    /\ matches = <<>>
    /\ conversations = <<>>
    /\ supabase = <<>>
    /\ messages = <<>>
    /\ notifications = {}
    /\ redis_published = {}
    /\ events = {}
    /\ sweepList = <<>>
    /\ sweepPc = "sleep"
    /\ sweepOwed = {}
    /\ lastCall = [u \in Users |-> [at |-> NoTime, code |-> 0]]
    /\ InitConnectionManager
    /\ message_reports = <<>>
    /\ reply = NoReply
    /\ blocker = [m \in MatchIds |-> NoUser]
    /\ caller = 0
    /\ user_broadcast = NoUserBroadcast
    /\ threads = [t \in Threads |-> Idle]
    /\ waiter = NoWaiter

StatusValues == {"approved", "rejected", "pending"}

\* the users who search for a match in the lifecycle specifications
Initiators == {"u1"}

Participants(m) ==
    IF HasMatch(m) THEN {matches[m].user_1_regno, matches[m].user_2_regno} ELSE {}

\* a find_match call that may create a Match only while fewer than `limit` exist
FindMatch(u, limit) ==
    /\ find_match_response(u) = 200 => Len(matches) < limit
    /\ find_match_service(u)

\* what a step of the state machine, the administrator or a chat participant
\* leaves alone
restVars == <<sweepVars, lastCall, wsVars, auxVars>>

\* the transitions the two participants (and outsiders) can ask for
ParticipantOps ==
    \/ \E u \in Initiators :
          FindMatch(u, MaxConversations) /\ UNCHANGED restVars
    \/ \E u \in Users, m \in MatchIds :
          request_conversation_service(u, m) /\ UNCHANGED restVars
    \/ \E u \in Users, m \in MatchIds :
          accept_conversation_service(u, m) /\ UNCHANGED restVars
    \/ \E u \in Users, m \in MatchIds :
          reject_conversation_service(u, m) /\ UNCHANGED restVars

AdminOps ==
    \/ \E m \in MatchIds :
          terminate_conversation(m) /\ UNCHANGED restVars
    \/ \E m \in MatchIds, sv \in StatusValues :
          update_matchmaking_status(m, sv) /\ UNCHANGED restVars

Sweeper ==
    \/ sweeper_query /\ UNCHANGED <<lastCall, wsVars, auxVars>>
    \/ sweeper_process /\ UNCHANGED <<lastCall, wsVars, auxVars>>
    \/ sweeper_sleep /\ UNCHANGED <<lastCall, wsVars, auxVars>>

Clock == Tick /\ UNCHANGED restVars

Init == InitWith({{"u2"}})

\* the conversation state machine, the administrator and the sweeper
Next ==
    \/ Clock
    \/ ParticipantOps
    \/ AdminOps
    \/ Sweeper

Spec == Init /\ [][Next]_vars

\* the participants and the sweeper, no administrator
NextSweeper ==
    \/ Clock
    \/ ParticipantOps
    \/ Sweeper

SpecSweeper == Init /\ [][NextSweeper]_vars

\* matchmaking alone, every user searching, each call logged in lastCall
InitMatchmaking == InitWith(OptInChoices)

NextMatchmaking ==
    \/ Clock
    \/ \E u \in Users :
          /\ FindMatch(u, MaxMatches)
          /\ lastCall' = [lastCall EXCEPT ![u] =
                             [at |-> now, code |-> find_match_response(u)]]
          /\ UNCHANGED <<sweepVars, wsVars, auxVars>>

SpecMatchmaking == InitMatchmaking /\ [][NextMatchmaking]_vars

\* the state machine with blocking and the message exchange
NextMessages ==
    \/ Clock
    \/ ParticipantOps
    \/ AdminOps
    \/ \E m \in MatchIds : \E u \in Participants(m) :
          block_conversation(m, u) /\ UNCHANGED restVars
    \/ \E m \in MatchIds : \E u \in Participants(m) :
          unblock_conversation(m, u) /\ UNCHANGED restVars
    \/ \E c \in MatchIds, u \in Users :
          send_message(c, u) /\ UNCHANGED restVars

SpecMessages == Init /\ [][NextMessages]_vars

\* the connection registry and one broadcaster
NextBroadcast ==
    \/ \E ws \in Sockets, u \in Initiators, m \in MatchIds :
          connect(ws, u, m) /\ UNCHANGED <<lifeVars, sweepVars, lastCall, auxVars>>
    \/ \E ws \in Sockets :
          peer_close(ws) /\ UNCHANGED <<lifeVars, sweepVars, lastCall, auxVars>>
    \/ \E ws \in Sockets :
          disconnect(ws) /\ UNCHANGED <<lifeVars, sweepVars, lastCall, auxVars>>
    \/ \E m \in MatchIds :
          broadcast_to_match(m) /\ UNCHANGED <<lifeVars, sweepVars, lastCall, auxVars>>
    \/ broadcast_send /\ UNCHANGED <<lifeVars, sweepVars, lastCall, auxVars>>
    \/ broadcast_cleanup /\ UNCHANGED <<lifeVars, sweepVars, lastCall, auxVars>>

SpecBroadcast == Init /\ [][NextBroadcast]_vars

\* the calls whose notification, conversation insert or Supabase sync can raise,
\* each answer logged in reply
quietVars == <<sweepVars, lastCall, wsVars, message_reports, blocker, callVars, poolVars>>

Answer(op, u, target, code, fails) ==
    [op |-> op, user |-> u, target |-> target, code |-> code, fails |-> fails]

NextFaults ==
    \/ Clock
    \/ \E u \in Initiators, fails \in SUBSET Failures :
          /\ find_match_response(u) = 200 => Len(matches) < MaxConversations
          /\ find_match_with(u, fails)
          /\ reply' = Answer("find_match", u, 0, find_match_outcome(u, fails), fails)
          /\ UNCHANGED quietVars
    \/ \E m \in MatchIds : \E u \in Participants(m), fails \in SUBSET {"notification"} :
          /\ request_conversation_with(u, m, fails)
          /\ reply' = Answer("request", u, m, request_conversation_outcome(u, m, fails), fails)
          /\ UNCHANGED quietVars
    \/ \E m \in MatchIds : \E u \in Participants(m), fails \in SUBSET {"notification"} :
          /\ accept_conversation_with(u, m, fails)
          /\ reply' = Answer("accept", u, m, accept_conversation_outcome(u, m, fails), fails)
          /\ UNCHANGED quietVars
    \/ \E m \in MatchIds : \E u \in Participants(m), fails \in SUBSET {"notification"} :
          /\ reject_conversation_with(u, m, fails)
          /\ reply' = Answer("reject", u, m, reject_conversation_outcome(u, m, fails), fails)
          /\ UNCHANGED quietVars

SpecFaults == Init /\ [][NextFaults]_vars

\* blocking and the message exchange of one conversation; blocker remembers who
\* set a block and has not lifted it since
blockRest == <<sweepVars, lastCall, wsVars, message_reports, reply, callVars, poolVars>>

Block(m, u) ==
    /\ block_conversation(m, u)
    /\ blocker' = IF block_conversation_result(m, u) /\ blocker[m] = NoUser
                  THEN [blocker EXCEPT ![m] = u]
                  ELSE blocker

Unblock(m, u) ==
    /\ unblock_conversation(m, u)
    /\ blocker' = IF unblock_conversation_result(m, u) /\ blocker[m] = u
                  THEN [blocker EXCEPT ![m] = NoUser]
                  ELSE blocker

NextBlocking ==
    \/ Clock
    \/ \E u \in Initiators :
          FindMatch(u, MaxConversations) /\ UNCHANGED restVars
    \/ \E m \in MatchIds : \E u \in Participants(m) :
          request_conversation_service(u, m) /\ UNCHANGED restVars
    \/ \E m \in MatchIds : \E u \in Participants(m) :
          accept_conversation_service(u, m) /\ UNCHANGED restVars
    \/ \E m \in MatchIds :
          terminate_conversation(m) /\ UNCHANGED restVars
    \/ \E m \in MatchIds : \E u \in Participants(m) :
          Block(m, u) /\ UNCHANGED blockRest
    \/ \E m \in MatchIds : \E u \in Participants(m) :
          Unblock(m, u) /\ UNCHANGED blockRest
    \/ \E c \in MatchIds : \E u \in Participants(c) :
          send_message(c, u) /\ UNCHANGED restVars
    \/ \E c \in MatchIds : \E u \in Participants(c) :
          get_messages(c, u) /\ UNCHANGED restVars

SpecBlocking == Init /\ [][NextBlocking]_vars

\* two conversations with the same receiver, within their first half hour:
\* messages, fetches, reports and the administrator's termination
Senders == {"u1", "u3"}

inboxRest == <<sweepVars, lastCall, wsVars, reply, blocker, callVars, poolVars>>

NextInbox ==
    \/ \E u \in Senders :
          FindMatch(u, MaxMatches) /\ UNCHANGED restVars
    \/ \E m \in MatchIds : \E u \in Participants(m) :
          request_conversation_service(u, m) /\ UNCHANGED restVars
    \/ \E m \in MatchIds : \E u \in Participants(m) :
          accept_conversation_service(u, m) /\ UNCHANGED restVars
    \/ \E m \in MatchIds :
          terminate_conversation(m) /\ UNCHANGED restVars
    \/ \E c \in MatchIds : \E u \in Participants(c) :
          send_message(c, u) /\ UNCHANGED restVars
    \/ \E c \in MatchIds : \E u \in Participants(c) :
          get_messages(c, u) /\ UNCHANGED restVars
    \/ \E msg \in 1..MaxMessages, u \in Users :
          report_message(msg, u) /\ UNCHANGED <<lifeVars, inboxRest>>

SpecInbox == Init /\ [][NextInbox]_vars

\* the registry with the socket handlers, the sweeper's broadcasts and
\* broadcast_to_user.  A handler waits in receive_text unless it is the caller
\* of the broadcast_to_match in progress.
in_receive(ws) == ~(caller = ws /\ broadcast.pc # "idle")

deliveryRest == <<lifeVars, sweepVars, lastCall, message_reports, reply, blocker, poolVars>>

Connect(ws, u, m) ==
    /\ connect(ws, u, m)
    /\ UNCHANGED <<deliveryRest, callVars>>

PeerClose(ws) ==
    /\ peer_close(ws)
    /\ UNCHANGED <<deliveryRest, callVars>>

\* receive_text raises once the peer is gone: `finally: manager.disconnect`
HandlerDisconnect(ws) ==
    /\ in_receive(ws)
    /\ disconnect(ws)
    /\ user_broadcast' = IF entry_deleted(ws)
                         THEN [user_broadcast EXCEPT !.stale = TRUE]
                         ELSE user_broadcast
    /\ UNCHANGED <<deliveryRest, caller>>

\* a typing frame: the handler calls broadcast_to_match for its own match
HandlerTyping(ws) ==
    /\ sock[ws] = "open"
    /\ ws \in DOMAIN websocket_matches
    /\ broadcast_to_match(websocket_matches[ws])
    /\ caller' = ws
    /\ UNCHANGED <<deliveryRest, user_broadcast>>

\* a broadcast of the sweeper
SweeperBroadcast(m) ==
    /\ broadcast_to_match(m)
    /\ caller' = 0
    /\ UNCHANGED <<deliveryRest, user_broadcast>>

MatchSend == broadcast_send /\ UNCHANGED <<deliveryRest, callVars>>

MatchCleanup == broadcast_cleanup /\ UNCHANGED <<deliveryRest, callVars>>

UserBroadcast(u, ex) ==
    /\ broadcast_to_user(u, ex)
    /\ UNCHANGED <<deliveryRest, wsVars, caller>>

UserSend == broadcast_user_send /\ UNCHANGED <<deliveryRest, wsVars, caller>>

UserRaise == broadcast_user_raise /\ UNCHANGED <<deliveryRest, wsVars, caller>>

UserCleanup ==
    /\ broadcast_user_cleanup
    /\ UNCHANGED <<deliveryRest, lock, sock, broadcast, caller>>

\* the sockets and the match of this specification
Clients == 1..(MaxSockets - 1)

Room == 1

NextDelivery ==
    \/ \E ws \in Clients, u \in Initiators : Connect(ws, u, Room)
    \/ \E ws \in Clients : PeerClose(ws)
    \/ \E ws \in Clients : HandlerDisconnect(ws)
    \/ \E ws \in Clients : HandlerTyping(ws)
    \/ SweeperBroadcast(Room)
    \/ MatchSend
    \/ MatchCleanup
    \/ \E u \in Initiators, ex \in {0, 1} : UserBroadcast(u, ex)
    \/ UserSend
    \/ UserRaise
    \/ UserCleanup

\* the event loop resumes every coroutine whose await has completed: a running
\* broadcast goes on, and a handler whose peer is gone reaches its finally;
\* nothing obliges a client to connect, to close or to type
FairDelivery ==
    /\ WF_vars(MatchSend)
    /\ WF_vars(MatchCleanup)
    /\ WF_vars(UserSend)
    /\ WF_vars(UserRaise)
    /\ WF_vars(UserCleanup)
    /\ \A ws \in Clients : WF_vars(HandlerDisconnect(ws))

SpecDelivery == Init /\ [][NextDelivery]_vars /\ FairDelivery

\* the read path beside the transitions, each answer logged in reply together
\* with the credential handed out
Reading(op, u, m, code, credential) ==
    [op |-> op, user |-> u, target |-> m, code |-> code, fails |-> {},
     credential |-> credential]

GetToken(u, m) ==
    /\ reply' = Reading("token", u, m, get_supabase_token_response(u, m),
                        get_supabase_token_service(u, m))
    /\ UNCHANGED <<lifeVars, quietVars>>

GetCurrentState(u) ==
    /\ IF current_match(u) = {}
       THEN reply' = Reading("current", u, 0, 200, NoCredential)
       ELSE \E m \in current_match(u) :
               reply' = Reading("current", u, m, 200,
                                get_current_conversation_service(u, m))
    /\ UNCHANGED <<lifeVars, quietVars>>

NextRead ==
    \/ Clock
    \/ \E u \in Initiators :
          FindMatch(u, MaxMatches) /\ UNCHANGED restVars
    \/ \E m \in MatchIds : \E u \in Participants(m) :
          request_conversation_service(u, m) /\ UNCHANGED restVars
    \/ \E m \in MatchIds : \E u \in Participants(m) :
          accept_conversation_service(u, m) /\ UNCHANGED restVars
    \/ \E m \in MatchIds :
          terminate_conversation(m) /\ UNCHANGED restVars
    \/ \E u \in Users, m \in MatchIds : GetToken(u, m)
    \/ \E u \in Users : GetCurrentState(u)

SpecRead == Init /\ [][NextRead]_vars

\* the receive loops of the connected sockets, frame by frame
HandlerFrame(ws, kind) ==
    /\ in_receive(ws)
    /\ handler_frame(ws, kind)
    /\ user_broadcast' = IF frame_outcome(kind) = "break" /\ entry_deleted(ws)
                         THEN [user_broadcast EXCEPT !.stale = TRUE]
                         ELSE user_broadcast
    /\ UNCHANGED <<deliveryRest, caller>>

NextFrames ==
    \/ \E ws \in Clients, u \in Initiators : Connect(ws, u, Room)
    \/ \E ws \in Clients : PeerClose(ws)
    \/ \E ws \in Clients : HandlerDisconnect(ws)
    \/ \E ws \in Clients, kind \in Frames : HandlerFrame(ws, kind)
    \/ \E ws \in Clients : HandlerTyping(ws)
    \/ MatchSend
    \/ MatchCleanup

SpecFrames == Init /\ [][NextFrames]_vars

\* what a step of a worker thread leaves alone
poolRest == <<sweepVars, lastCall, wsVars, message_reports, reply, blocker, callVars, waiter>>

\* a worker thread has read what find_match_service reads
FindRead(t, u) == find_match_read(t, u) /\ UNCHANGED poolRest

\* the thread goes on to the insert, while fewer than MaxMatches exist
FindInsert(t) ==
    /\ Len(matches) < MaxMatches
    /\ find_match_insert(t)
    /\ UNCHANGED poolRest

\* a worker thread has read what a transition's service reads
TransitionRead(t, op, u, m) == transition_read(t, op, u, m) /\ UNCHANGED poolRest

\* the thread goes on to the update
TransitionWrite(t) == transition_write(t) /\ UNCHANGED poolRest

\* the synchronous routes on two worker threads, each call in two steps
PoolOps ==
    \/ \E t \in Threads, u \in Initiators : FindRead(t, u)
    \/ \E t \in Threads : FindInsert(t)
    \/ \E t \in Threads, op \in {"request", "accept", "reject"}, m \in MatchIds :
          \E u \in Participants(m) : TransitionRead(t, op, u, m)
    \/ \E t \in Threads : TransitionWrite(t)

NextRaces ==
    \/ Clock
    \/ PoolOps

SpecRaces == Init /\ [][NextRaces]_vars

\* the sweeper coroutine, one step per database call and per broadcast
SweeperQuery == sweeper_query /\ UNCHANGED <<lastCall, wsVars, auxVars>>

SweeperRead == sweeper_read /\ UNCHANGED <<lastCall, wsVars, auxVars>>

SweeperUpdate == sweeper_update /\ UNCHANGED <<lastCall, wsVars, auxVars>>

SweeperAnnounce ==
    /\ sweeper_announce
    /\ caller' = 0
    /\ UNCHANGED <<lastCall, message_reports, reply, blocker, user_broadcast, poolVars>>

SweeperSkip == sweeper_skip /\ UNCHANGED <<lastCall, wsVars, auxVars>>

SweeperSleep ==
    /\ broadcast_returned
    /\ sweeper_sleep
    /\ UNCHANGED <<lastCall, wsVars, auxVars>>

SweeperSteps ==
    \/ SweeperQuery
    \/ SweeperRead
    \/ SweeperUpdate
    \/ SweeperAnnounce
    \/ SweeperSkip
    \/ SweeperSleep

\* the sweeper stands at an await: the event loop may run another coroutine
sweeper_awaits == sweepPc = "sleep" \/ ~broadcast_returned

\* POST /admin/conversations/{id}/terminate is `async def`: it runs on the
\* event loop, between two awaits of the sweeper
AdminTerminate(m) ==
    /\ sweeper_awaits
    /\ terminate_conversation(m)
    /\ UNCHANGED restVars

\* the sweeper beside the synchronous routes on their worker threads and the
\* administrator on the event loop
NextSweepRaces ==
    \/ Clock
    \/ \E u \in Initiators : FindMatch(u, MaxConversations) /\ UNCHANGED restVars
    \/ \E t \in Threads, op \in {"request", "accept", "reject"}, m \in MatchIds :
          \E u \in Participants(m) : TransitionRead(t, op, u, m)
    \/ \E t \in Threads : TransitionWrite(t)
    \/ \E m \in MatchIds : HasConversation(m) /\ AdminTerminate(m)
    \/ SweeperSteps

SpecSweepRaces == Init /\ [][NextSweepRaces]_vars

\* the sweeper and the connections its broadcasts go to: two users who both
\* search, so that one pass can hold two matches, the first of which can be
\* requested and accepted
InitSweepDelivery == InitWith({{"u1", "u2"}})

Searchers == {"u1", "u2"}

NextSweepDelivery ==
    \/ Clock
    \/ \E u \in Searchers : FindMatch(u, MaxMatches) /\ UNCHANGED restVars
    \/ \E u \in Participants(Room) :
          /\ request_conversation_check(u, Room) = 201
          /\ request_conversation_service(u, Room)
          /\ UNCHANGED restVars
    \/ \E u \in Participants(Room) :
          /\ accept_conversation_check(u, Room) = 200
          /\ accept_conversation_service(u, Room)
          /\ UNCHANGED restVars
    \/ \E m \in MatchIds : \E u \in Participants(m) : Connect(1, u, m)
    \/ PeerClose(1)
    \/ HandlerDisconnect(1)
    \/ SweeperSteps
    \/ MatchSend
    \/ MatchCleanup

\* the event loop resumes the sweeper and the broadcast it awaits whenever
\* they can go on; nothing obliges a user or the clock to move
FairSweep ==
    /\ WF_vars(SweeperSteps)
    /\ WF_vars(MatchSend)
    /\ WF_vars(MatchCleanup)

SpecSweepDelivery == InitSweepDelivery /\ [][NextSweepDelivery]_vars /\ FairSweep

\* the registry under connects, disconnects and both kinds of broadcast, for
\* two users and every match
Owners == {"u1", "u2"}

NextRegistry ==
    \/ \E ws \in Clients, u \in Owners, m \in MatchIds : Connect(ws, u, m)
    \/ \E ws \in Clients : PeerClose(ws)
    \/ \E ws \in Clients : HandlerDisconnect(ws)
    \/ \E m \in MatchIds : SweeperBroadcast(m)
    \/ MatchSend
    \/ MatchCleanup
    \/ \E u \in Owners : UserBroadcast(u, 0)
    \/ UserSend
    \/ UserRaise
    \/ UserCleanup

SpecRegistry == Init /\ [][NextRegistry]_vars

\* what a broadcast_to_match call that has to wait leaves alone
waitRest == <<lifeVars, sweepVars, lastCall, message_reports, reply, blocker,
              callVars, threads>>

\* the sweeper's broadcast finds the lock taken by a handler's broadcast
SweeperWait(m) == broadcast_to_match_wait(m) /\ UNCHANGED waitRest

SweeperResume ==
    /\ broadcast_to_match_resume
    /\ caller' = IF waiter'.pc = "entered" THEN 0 ELSE caller
    /\ UNCHANGED <<lifeVars, sweepVars, lastCall, message_reports, reply, blocker,
                   user_broadcast, threads>>

\* two broadcasts to one match, the second one waiting for the lock, while the
\* match's connections come and go
NextWaiting ==
    \/ \E ws \in Clients, u \in Initiators : Connect(ws, u, Room)
    \/ \E ws \in Clients : PeerClose(ws)
    \/ \E ws \in Clients : HandlerDisconnect(ws)
    \/ \E ws \in Clients : HandlerTyping(ws)
    \/ MatchSend
    \/ MatchCleanup
    \/ SweeperWait(Room)
    \/ SweeperResume

SpecWaiting == Init /\ [][NextWaiting]_vars

\* a worker thread has run the checks of report_message
ReportRead(t, msg, u) ==
    /\ report_message_read(t, msg, u)
    /\ UNCHANGED <<lifeVars, sweepVars, lastCall, wsVars, reply, blocker, callVars,
                   waiter>>

\* the thread goes on to the insert and answers
ReportInsert(t) ==
    /\ report_message_insert(t)
    /\ reply' = Answer("report", threads[t].user, threads[t].match,
                       report_message_insert_response(threads[t].match,
                                                      threads[t].user), {})
    /\ UNCHANGED <<lifeVars, sweepVars, lastCall, wsVars, blocker, callVars, waiter>>

\* accepted conversations with messages, reported from two worker threads
NextReports ==
    \/ \E u \in Senders : FindMatch(u, MaxMatches) /\ UNCHANGED restVars
    \/ \E m \in MatchIds : \E u \in Participants(m) :
          /\ request_conversation_check(u, m) = 201
          /\ request_conversation_service(u, m)
          /\ UNCHANGED restVars
    \/ \E m \in MatchIds : \E u \in Participants(m) :
          /\ accept_conversation_check(u, m) = 200
          /\ accept_conversation_service(u, m)
          /\ UNCHANGED restVars
    \/ \E c \in MatchIds : \E u \in Participants(c) :
          /\ send_message_response(c, u) = 201
          /\ send_message(c, u)
          /\ UNCHANGED restVars
    \/ \E t \in Threads, msg \in 1..MaxMessages, u \in Users : ReportRead(t, msg, u)
    \/ \E t \in Threads : ReportInsert(t)

SpecReports == Init /\ [][NextReports]_vars

\* the values of the `limit` query parameter a caller passes (1 to 500)
Limits == {1, DEFAULT_LIMIT}

\* GET /messages/{conversation_id}?limit=..., the list returned logged in reply
Fetch(c, u, limit) ==
    /\ get_messages(c, u)
    /\ reply' = [op |-> "fetch", user |-> u, target |-> c,
                 code |-> get_messages_response(c, u), fails |-> {},
                 shown |-> IF get_messages_response(c, u) = 200
                           THEN get_messages_result(c, limit) ELSE <<>>]
    /\ UNCHANGED quietVars

\* accepted conversations, their messages and fetches with a limit
NextFetch ==
    \/ \E u \in Senders : FindMatch(u, MaxMatches) /\ UNCHANGED restVars
    \/ \E m \in MatchIds : \E u \in Participants(m) :
          /\ request_conversation_check(u, m) = 201
          /\ request_conversation_service(u, m)
          /\ UNCHANGED restVars
    \/ \E m \in MatchIds : \E u \in Participants(m) :
          /\ accept_conversation_check(u, m) = 200
          /\ accept_conversation_service(u, m)
          /\ UNCHANGED restVars
    \/ \E c \in MatchIds : \E u \in Participants(c) :
          /\ send_message_response(c, u) = 201
          /\ send_message(c, u)
          /\ UNCHANGED restVars
    \/ \E c \in MatchIds, limit \in Limits : \E u \in Participants(c) :
          Fetch(c, u, limit)

SpecFetch == Init /\ [][NextFetch]_vars

\* POST /messages/send with the steps in `fails` raising, the answer and the
\* Message returned logged in reply
Send(c, u, fails) ==
    /\ send_message_with(c, u, fails)
    /\ reply' = [op |-> "send", user |-> u, target |-> c,
                 code |-> send_message_outcome(c, u, fails), fails |-> fails,
                 shown |-> IF send_message_outcome(c, u, fails) = 201
                           THEN <<Len(messages) + 1>> ELSE <<>>]
    /\ UNCHANGED quietVars

\* accepted conversations and sends whose database writes or publish can raise
NextPublish ==
    \/ \E u \in Senders : FindMatch(u, MaxMatches) /\ UNCHANGED restVars
    \/ \E m \in MatchIds : \E u \in Participants(m) :
          /\ request_conversation_check(u, m) = 201
          /\ request_conversation_service(u, m)
          /\ UNCHANGED restVars
    \/ \E m \in MatchIds : \E u \in Participants(m) :
          /\ accept_conversation_check(u, m) = 200
          /\ accept_conversation_service(u, m)
          /\ UNCHANGED restVars
    \/ \E c \in MatchIds, fails \in SUBSET MessageFailures : \E u \in Participants(c) :
          Send(c, u, fails)

SpecPublish == Init /\ [][NextPublish]_vars

(* ------------------------------ claims -------------------------------- *)
Rank(st) ==
    CASE st = "pending" -> 0
      [] st = "requested" -> 1
      [] st \in {"accepted", "rejected"} -> 2
      [] st \in {"expired", "terminated"} -> 3

\* C1: whatever operation writes a Conversation's status (request, accept,
\* reject, the sweeper's expire, admin terminate, admin moderation), the status
\* never moves to a lower rank in pending < requested < {accepted, rejected} <
\* {expired, terminated}.
C1_StatusNeverRegresses ==
    [][\A m \in DOMAIN conversations :
          Rank(conversations'[m].status) >= Rank(conversations[m].status)]_vars

IsBlocked(c) == HasRow(c) /\ supabase[c].is_blocked

GateOpen(c) ==
    /\ conversations[c].status = "accepted"
    /\ ~IsBlocked(c)
    /\ ~MatchExpired(c)

\* C2: send_message by a participant persists no Message when the conversation
\* is not accepted, or is blocked, or its Match is expired (now past expires_at);
\* in every other case it persists exactly one Message, with read = false.
C2_SendGate ==
    [][\A c \in DOMAIN conversations : \A u \in Participants(c) :
          /\ GateOpen(c) => send_message_response(c, u) = 201
          /\ send_message(c, u) =>
                 IF GateOpen(c)
                 THEN /\ Len(messages') = Len(messages) + 1
                      /\ messages'[Len(messages')].conversation_id = c
                      /\ messages'[Len(messages')].sender_id = u
                      /\ messages'[Len(messages')].read = FALSE
                 ELSE messages' = messages]_vars

\* C3: when a sweeper pass starts with a Match whose expires_at is already in
\* the past and whose Conversation is accepted, then at the end of that pass the
\* Conversation is expired and match_expired has been broadcast for the match.
C3_SweeperExpiresOverdue ==
    [][sweeper_sleep =>
          \A m \in sweepOwed : /\ conversations'[m].status = "expired"
                               /\ <<"match_expired", m>> \in events']_vars

\* C4: once the send loop of a broadcast_to_match call is over, every socket of
\* the copied connection set has been sent to or has raised, and every socket of
\* the copy whose peer is still there has been sent to: a send that raised did
\* not keep the event from the others.
C4_FailureDoesNotAbortBroadcast ==
    (broadcast.pc # "send" \/ broadcast.todo = {}) =>
        /\ delivered(broadcast) \cup disconnected_websockets(broadcast)
               = broadcast.current_connections
        /\ \A ws \in broadcast.current_connections :
               sock[ws] = "open" => ws \in delivered(broadcast)

\* C4 witness: a finished send loop in which a send raised and a later send of
\* the same call went through.
C4_Witness ==
    /\ broadcast.pc = "blocked"
    /\ \E i, j \in DOMAIN broadcast.log :
          /\ i < j
          /\ ~broadcast.log[i].ok
          /\ broadcast.log[j].ok

\* a step that is a find_match call by u: the record of u's last call changes
IsCall(u) == lastCall'[u] # lastCall[u]

\* C5 (as stated): for two consecutive find_match calls of one user, when they
\* are at least the cooldown window apart and candidates exist the second
\* succeeds; when they are less than the window apart the second is refused with
\* TooManyRequests (429), whatever the first answered.
C5_CooldownAnyOutcome ==
    [][\A u \in Users :
          IsCall(u) /\ lastCall[u].at # NoTime =>
              LET gap == now - lastCall[u].at IN
              /\ gap >= Hours(MATCHMAKING_COOLDOWN_HOURS) /\ candidates(u) # {}
                     => lastCall'[u].code = 200
              /\ gap < Hours(MATCHMAKING_COOLDOWN_HOURS)
                     => lastCall'[u].code = 429]_vars

\* C5 (amended): for two consecutive find_match calls of one user, when they are
\* at least the cooldown window apart and candidates exist the second succeeds;
\* when they are less than the window apart and the first consumed the attempt
\* (it succeeded or answered NotFound) the second is refused with 429.
C5_CooldownBetweenCalls ==
    [][\A u \in Users :
          IsCall(u) /\ lastCall[u].at # NoTime =>
              LET gap == now - lastCall[u].at IN
              /\ gap >= Hours(MATCHMAKING_COOLDOWN_HOURS) /\ candidates(u) # {}
                     => lastCall'[u].code = 200
              /\ gap < Hours(MATCHMAKING_COOLDOWN_HOURS) /\ lastCall[u].code \in {200, 404}
                     => lastCall'[u].code = 429]_vars

\* C5 witness: one user was matched twice, a full window apart, and the call
\* that followed the second match within the window was refused.
C5_Witness ==
    \E u \in Users :
        /\ Len(matches) = 2
        /\ matches[1].user_1_regno = u
        /\ matches[2].user_1_regno = u
        /\ matches[2].created_at - matches[1].created_at >= Hours(MATCHMAKING_COOLDOWN_HOURS)
        /\ lastCall[u].code = 429
        /\ lastCall[u].at > matches[2].created_at

\* C6: a find_match call of a user who is not cooling down and has no candidate
\* answers NotFound (404), creates no Match and no Conversation and stamps
\* last_matchmaking_time; the call that immediately follows a NotFound is
\* refused with TooManyRequests (429).
C6_EmptyPoolConsumesAttempt ==
    [][\A u \in Users :
          IsCall(u) =>
              /\ ~check_matchmaking_cooldown_service(u) /\ candidates(u) = {}
                     => /\ lastCall'[u].code = 404
                        /\ matches' = matches
                        /\ conversations' = conversations
                        /\ last_matchmaking_time'[u] = now
              /\ lastCall[u].code = 404 /\ lastCall[u].at = now
                     => lastCall'[u].code = 429]_vars

\* C6 witness: a user with an empty pool was answered NotFound and the call made
\* at the same instant afterwards was refused.
C6_Witness ==
    \E u \in Users :
        /\ candidates(u) = {}
        /\ last_matchmaking_time[u] = now
        /\ lastCall[u] = [at |-> now, code |-> 429]
        /\ matches = <<>>

RequestAllowed(u, m) ==
    /\ HasMatch(m)
    /\ HasConversation(m)
    /\ conversations[m].initiatorId = u
    /\ conversations[m].status = "pending"
    /\ ~MatchExpired(m)

\* C7 (state part): request changes the Conversation only for the initiator of a
\* pending conversation of an unexpired Match, and then sets status = requested
\* and stamps requested_at; every other call leaves the Conversation unchanged.
RequestStateContract ==
    [][\A u \in Users, m \in MatchIds :
          request_conversation_service(u, m) =>
              IF RequestAllowed(u, m)
              THEN /\ conversations'[m].status = "requested"
                   /\ conversations'[m].requestedAt = now
              ELSE conversations' = conversations]_vars

\* C7: request changes a Conversation only when the caller is its initiator, its
\* status is pending and the Match is not expired (status becomes requested,
\* requested_at is stamped); every other call fails and changes nothing, and a
\* repeated request is answered with Conflict (409).
C7_RequestContract ==
    /\ RequestStateContract
    /\ [](\A m \in DOMAIN conversations :
            conversations[m].status = "requested" /\ ~MatchExpired(m)
                => request_conversation_response(conversations[m].initiatorId, m) = 409)

\* C8: a Conversation becomes accepted only from requested, while its Match is
\* not expired, with accepted_at stamped; accept itself changes the Conversation
\* only for the receiver; a pending conversation is never accepted without a
\* prior request.
C8_AcceptContract ==
    [][/\ \A m \in DOMAIN conversations :
             conversations[m].status # "accepted" /\ conversations'[m].status = "accepted"
                 => /\ conversations[m].status = "requested"
                    /\ conversations[m].requestedAt # NoTime
                    /\ ~MatchExpired(m)
                    /\ conversations'[m].acceptedAt = now
       /\ \A u \in Users, m \in MatchIds :
             accept_conversation_service(u, m) /\ conversations' # conversations
                 => u = conversations[m].receiverId
      ]_vars

\* C9: once a Conversation's status is rejected, no later operation of any actor
\* changes it.
C9_RejectedAbsorbing ==
    [][\A m \in DOMAIN conversations :
          conversations[m].status = "rejected" => conversations'[m].status = "rejected"]_vars

\* C10: terminate from a non-terminal status sets status = terminated, stamps
\* terminated_at, sets the Match's expires_at to now and marks the conversation
\* blocked by admin; terminate on a Conversation that is already terminated or
\* expired is refused and changes neither the Conversation nor the Match.
C10_TerminateContract ==
    [][\A m \in DOMAIN conversations :
          terminate_conversation(m) =>
              IF conversations[m].status \notin {"terminated", "expired"}
              THEN /\ conversations'[m].status = "terminated"
                   /\ conversations'[m].terminatedAt = now
                   /\ matches'[m].expires_at = now
                   /\ HasRow(m) => /\ supabase'[m].is_blocked
                                   /\ supabase'[m].blocked_by = "admin"
              ELSE conversations' = conversations /\ matches' = matches]_vars

\* C11: a Match is created with expires_at = created_at + 4 hours, and no later
\* step stores a larger expires_at than the one the Match had before.
C11_ExpiresAtNeverIncreases ==
    [][\A m \in 1..Len(matches') :
          IF m <= Len(matches)
          THEN matches'[m].expires_at <= matches[m].expires_at
          ELSE matches'[m].expires_at
                   = matches'[m].created_at + Hours(MATCH_EXPIRY_HOURS)]_vars

\* C12: every Match has a Conversation under its match id, whose initiator is
\* the Match's first user (the caller) and whose receiver is the second (the
\* candidate), also when a step of find_match raised; a Conversation is created
\* in status pending. (Conversations are keyed by match id and inserted by
\* find_match alone, once per Match, so a Match never has two.)
C12_OneConversationPerMatch ==
    /\ [](\A m \in 1..Len(matches) :
            /\ HasConversation(m)
            /\ conversations[m].initiatorId = matches[m].user_1_regno
            /\ conversations[m].receiverId = matches[m].user_2_regno)
    /\ [][\A m \in DOMAIN conversations' \ DOMAIN conversations :
             conversations'[m].status = "pending"]_vars

\* the last call answered is a new one and its notification insert raised
NotificationFailed == reply' # reply /\ "notification" \in reply'.fails

\* C19: when the notification insert raises during a find_match, request, accept
\* or reject that would otherwise succeed, the caller is still answered with
\* success and the state change is complete: for find_match the Match, the
\* stamped cooldown and the pending Conversation, for a transition the new status.
C19_NotificationFailureNotPropagated ==
    [][NotificationFailed =>
          LET u == reply'.user
              m == reply'.target
              op == reply'.op IN
          /\ op = "find_match" /\ find_match_response(u) = 200
                 => /\ reply'.code = 200
                    /\ Len(matches') = Len(matches) + 1
                    /\ last_matchmaking_time'[u] = now
                    /\ Len(matches') \in DOMAIN conversations'
                    /\ conversations'[Len(matches')].status = "pending"
          /\ op = "request" /\ request_conversation_check(u, m) = 201
                 => reply'.code = 201 /\ conversations'[m].status = "requested"
          /\ op = "accept" /\ accept_conversation_check(u, m) = 200
                 => reply'.code = 200 /\ conversations'[m].status = "accepted"
          /\ op = "reject" /\ reject_conversation_check(u, m) = 200
                 => reply'.code = 200 /\ conversations'[m].status = "rejected"]_vars

\* C13: once a participant X has blocked a conversation it stays blocked until
\* X unblocks it: while X's block stands (blocker = X) the conversation is
\* blocked whatever the other participant blocked or unblocked in between, and
\* an unblock by the other participant is refused.
C13_BlockHeldUntilBlockerUnblocks ==
    \A m \in MatchIds :
        blocker[m] # NoUser =>
            /\ IsBlocked(m)
            /\ \A u \in Participants(m) \ {blocker[m]} :
                   ~unblock_conversation_result(m, u)

\* C14: on an accepted conversation whose match has not expired, a fetch by
\* either participant succeeds and returns the whole history, a send by either
\* participant fails exactly while the conversation is blocked, and no block
\* or unblock call changes the conversation's status.
C14_BlockGatesSendNotFetch ==
    /\ [](\A c \in DOMAIN conversations : \A u \in Participants(c) :
             conversations[c].status = "accepted" /\ ~MatchExpired(c) =>
                 /\ get_messages_response(c, u) = 200
                 /\ get_messages_result(c, DEFAULT_LIMIT) = conversation_messages(c)
                 /\ IsBlocked(c) => send_message_response(c, u) # 201
                 /\ ~IsBlocked(c) => send_message_response(c, u) = 201)
    /\ [][\A c \in DOMAIN conversations : \A u \in Participants(c) :
             block_conversation(c, u) \/ unblock_conversation(c, u) =>
                 conversations'[c].status = conversations[c].status]_vars

\* C15: a successful fetch(conversation, user) leaves every message of that
\* conversation addressed to the user with read = true and every other message
\* (sent by the user, or of another conversation) as it was; no step of any
\* operation turns read from true back to false.
C15_FetchMarksRead ==
    [][/\ \A i \in 1..Len(messages) : messages[i].read => messages'[i].read
       /\ \A c \in DOMAIN conversations : \A u \in Participants(c) :
             get_messages_response(c, u) = 200 /\ get_messages(c, u) =>
                 \A i \in 1..Len(messages) :
                     IF /\ messages[i].conversation_id = c
                        /\ messages[i].receiver_id = u
                     THEN messages'[i].read
                     ELSE messages'[i] = messages[i]]_vars

\* C15 witness: a fetch has marked a message of one conversation as read while
\* an unread message of another conversation kept read = false.
C15_Witness ==
    \E i, j \in 1..Len(messages) :
        /\ messages[i].read
        /\ ~messages[j].read
        /\ messages[i].conversation_id # messages[j].conversation_id

\* C16: once a report of a message by a reporter is stored, a further report
\* of the same message by the same reporter is answered Conflict, whatever
\* became of the conversation, and no two stored reports share the pair
\* (message, reporter).
C16_RepeatedReportConflict ==
    /\ \A i \in 1..Len(message_reports) :
           report_message_response(message_reports[i].message_id,
                                   message_reports[i].reporter_id) = 409
    /\ \A i, j \in 1..Len(message_reports) :
           /\ message_reports[i].message_id = message_reports[j].message_id
           /\ message_reports[i].reporter_id = message_reports[j].reporter_id
           => i = j

\* C17: a report is accepted only from the message's receiver and only while
\* the conversation is accepted; the sender or a third party is answered
\* Forbidden; every report that gets stored is one report, pending, made by
\* the message's receiver against the message's sender in an accepted
\* conversation.
C17_ReportContract ==
    /\ [](\A msg \in 1..Len(messages), u \in Users :
             /\ report_message_response(msg, u) = 201 =>
                    /\ messages[msg].receiver_id = u
                    /\ conversations[messages[msg].conversation_id].status = "accepted"
             /\ messages[msg].receiver_id # u =>
                    report_message_response(msg, u) = 403)
    /\ [][message_reports' # message_reports =>
             LET r == message_reports'[Len(message_reports')] IN
             /\ message_reports' = Append(message_reports, r)
             /\ r.status = "pending"
             /\ r.reporter_id = messages[r.message_id].receiver_id
             /\ r.reported_user_id = messages[r.message_id].sender_id
             /\ r.conversation_id = messages[r.message_id].conversation_id
             /\ conversations[r.conversation_id].status = "accepted"]_vars

\* C17 witness: a report by the receiver of a message is stored, pending.
C17_Witness ==
    \E i \in 1..Len(message_reports) :
        /\ message_reports[i].status = "pending"
        /\ message_reports[i].reporter_id =
               messages[message_reports[i].message_id].receiver_id

\* the domain errors that apply to a transition asked by u on match m, for the
\* role and the source status the transition requires
Violations(u, m, role, from) ==
    (IF ~HasMatch(m) \/ ~HasConversation(m) THEN {404} ELSE {})
    \cup (IF HasMatch(m) /\ MatchExpired(m) THEN {410} ELSE {})
    \cup (IF \/ HasMatch(m) /\ u \notin Participants(m)
             \/ HasConversation(m) /\ conversations[m][role] # u
          THEN {403} ELSE {})
    \cup (IF HasConversation(m) /\ conversations[m].status # from THEN {409} ELSE {})

\* C18: request, accept and reject answer a violation with the domain error of
\* a rule the call breaks (NotFound 404, Expired 410, Forbidden 403, Conflict
\* 409), never with another status such as a generic internal error, and answer
\* success when no rule is broken.
C18_DomainErrors ==
    \A u \in Users, m \in MatchIds :
        /\ IF Violations(u, m, "initiatorId", "pending") = {}
           THEN request_conversation_response(u, m) = 201
           ELSE request_conversation_response(u, m)
                    \in Violations(u, m, "initiatorId", "pending")
        /\ IF Violations(u, m, "receiverId", "requested") = {}
           THEN accept_conversation_response(u, m) = 200
           ELSE accept_conversation_response(u, m)
                    \in Violations(u, m, "receiverId", "requested")
        /\ IF Violations(u, m, "receiverId", "requested") = {}
           THEN reject_conversation_response(u, m) = 200
           ELSE reject_conversation_response(u, m)
                    \in Violations(u, m, "receiverId", "requested")

FailedDelivery(ws) ==
    \/ ws \in disconnected_websockets(broadcast)
    \/ ws \in user_broadcast.disconnected_websockets

Removed(ws) ==
    /\ ws \notin DOMAIN websocket_matches
    /\ ws \notin DOMAIN websocket_users
    /\ \A k \in DOMAIN active_connections : ws \notin active_connections[k]
    /\ \A k \in DOMAIN user_connections : ws \notin user_connections[k]

\* C20: whenever the delivery to a connection raised during broadcast_to_match
\* or broadcast_to_user, the connection is eventually gone from the by-match
\* index, the by-user index and the two clean-up maps.
C20_FailedConnectionEventuallyRemoved ==
    \A ws \in Sockets : FailedDelivery(ws) ~> Removed(ws)

\* C21: a broadcast_to_match made with a connection to exclude (the handler of
\* a typing frame passes its own socket, recorded in caller) sends to every
\* connection of the match except that one: the excluded socket never appears
\* among the sockets the call has sent to, and once the loop is over every
\* other socket of the copied set has been sent to.
C21_ExcludedNotSentTo ==
    caller # 0 =>
        /\ \A i \in DOMAIN broadcast.log : broadcast.log[i].ws # caller
        /\ broadcast.pc \in {"idle", "blocked"} =>
               \A ws \in broadcast.current_connections \ {caller} :
                   \E i \in DOMAIN broadcast.log : broadcast.log[i].ws = ws

Registered(ws) ==
    /\ ws \in DOMAIN websocket_matches
    /\ ws \in DOMAIN websocket_users
    /\ websocket_matches[ws] \in DOMAIN active_connections
    /\ ws \in active_connections[websocket_matches[ws]]
    /\ websocket_users[ws] \in DOMAIN user_connections
    /\ ws \in user_connections[websocket_users[ws]]

\* C24: a pass of the receive loop for a frame that is none of ping, typing and
\* message_sent (an object of unknown type, text that is not JSON, JSON that is
\* not an object) leaves the connection registered in the by-match and the
\* by-user index and open, ready for its next frame.
C24_UnrecognisedFrameIgnored ==
    [][\A ws \in Sockets, kind \in {"unknown", "malformed", "not_object"} :
          Registered(ws) /\ handler_frame(ws, kind) =>
              /\ Registered(ws)'
              /\ sock'[ws] = "open"]_vars

\* C25: the registry lock is never held for ever: whenever a broadcast_to_match
\* call holds it, the call eventually ends and the lock is free again, also
\* when sends of the call have failed.
C25_LockEventuallyReleased ==
    (lock = "held") ~> (lock = "free" /\ broadcast.pc = "idle")

\* C26: two transitions interleaved on the same requested Conversation, in
\* any order of their read and write steps: at most one takes effect. No step
\* moves a Conversation between accepted and rejected, and a step that sets
\* accepted or rejected finds the Conversation requested when it writes.
C26_OneTransitionTakesEffect ==
    [][\A m \in DOMAIN conversations :
          conversations'[m] # conversations[m]
          /\ conversations'[m].status \in {"accepted", "rejected"}
          => conversations[m].status = "requested"]_vars

\* the Matches user u initiated that the active-match query of
\* get_current_conversation_service selects (expires_at > now)
ActiveInitiated(u) ==
    {m \in 1..Len(matches) : matches[m].user_1_regno = u /\ matches[m].expires_at > now}

\* C27: at every moment every user is the initiator (user_1) of at most one
\* non-expired Match, whatever the interleaving of that user's find_match calls.
C27_OneActiveMatchPerInitiator ==
    \A u \in Users : Cardinality(ActiveInitiated(u)) <= 1

\* C29: the Sweeper sets a Conversation to expired only if its stored status
\* is accepted at the moment of the write: no step takes a pending, requested,
\* rejected or terminated Conversation to expired, whatever runs between the
\* Sweeper's read of the status and its write.
C29_OnlyAcceptedExpires ==
    [][\A m \in DOMAIN conversations :
          conversations[m].status # "expired" /\ conversations'[m].status = "expired"
          => conversations[m].status = "accepted"]_vars

\* the expiry events of match m that this step hands to broadcast_to_match
ExpiryEventsIssued(m) ==
    (events' \ events) \cap {<<"match_expired", m>>, <<"conversation_status_update", m>>}

\* C30: the write of status = expired comes before the match_expired and
\* conversation_status_update broadcasts of the match: no expiry event is
\* issued for a Conversation whose stored status is accepted.
C30_WriteBeforeBroadcast ==
    [][\A m \in DOMAIN conversations :
          ExpiryEventsIssued(m) # {} => conversations[m].status # "accepted"]_vars

\* the sweeper coroutine, or the broadcast it is waiting for, can take a step
SweeperCanGoOn == ENABLED (SweeperSteps \/ MatchSend \/ MatchCleanup)

\* C28: a failure while the Sweeper handles one match (a record it cannot
\* process, a delivery to a dead connection during the match's broadcast)
\* never stops the sweep: in the middle of a pass the Sweeper can always go
\* on to the remaining matches and to the sleep that precedes the next pass.
C28_SweepNeverStops == sweepPc # "sleep" => SweeperCanGoOn

\* the sockets the by-match index holds for match m, the by-user index for user u
InMatchSet(ws, m) == m \in DOMAIN active_connections /\ ws \in active_connections[m]

InUserSet(ws, u) == u \in DOMAIN user_connections /\ ws \in user_connections[u]

\* C31: the registry is consistent: a connection is in the by-match set of m
\* and the by-user set of u exactly when the cleanup maps record (u, m) for it,
\* a disconnected connection is in no set, and no index keeps an empty set.
C31_RegistryConsistent ==
    /\ DOMAIN websocket_users = DOMAIN websocket_matches
    /\ \A ws \in Sockets :
          /\ \A m \in MatchIds :
                InMatchSet(ws, m) <=>
                    (ws \in DOMAIN websocket_matches /\ websocket_matches[ws] = m)
          /\ \A u \in Users :
                InUserSet(ws, u) <=>
                    (ws \in DOMAIN websocket_users /\ websocket_users[ws] = u)
    /\ DOMAIN active_connections \subseteq MatchIds
    /\ DOMAIN user_connections \subseteq Users
    /\ \A m \in DOMAIN active_connections : active_connections[m] # {}
    /\ \A u \in DOMAIN user_connections : user_connections[u] # {}

\* C31 witness: one socket has been disconnected and is in no index while
\* another socket of the same match and user is still registered
C31_Witness ==
    \E gone \in Sockets, kept \in Sockets :
        /\ sock[gone] = "closed"
        /\ gone \notin DOMAIN websocket_matches
        /\ kept \in DOMAIN websocket_matches
        /\ InMatchSet(kept, websocket_matches[kept])
        /\ InUserSet(kept, websocket_users[kept])

\* C32: a broadcast tolerates concurrent mutation of the registry: no
\* broadcast_to_user call that has reached a suspension point (it has sent to
\* a connection) is left by an exception when a connect or a disconnect of
\* the same user falls there.
C32_BroadcastToleratesMutation ==
    ~(user_broadcast.raised /\ user_broadcast.visited # {})

\* C33: broadcast_to_match never raises when the last connection of the match
\* disconnects between its membership check and its read of the connection
\* set under the lock: it delivers to nobody and returns normally.
C33_LateDisconnectTolerated == waiter.pc # "raised"

\* the reports stored for the pair (message, reporter)
ReportsOf(msg, u) ==
    {i \in 1..Len(message_reports) : /\ message_reports[i].message_id = msg
                                     /\ message_reports[i].reporter_id = u}

C35_ExpiryTestsAgree ==
    \A m \in 1..Len(matches) :
        /\ MatchExpired(m) <=> ~active_query(m)
        /\ MatchExpired(m) <=> sweeper_expired(m)
        /\ is_expired(m) <=> ~active_query(m)

\* C36: every message a fetch call flips from unread to read is in the list
\* that same call returns: fetch never marks as read a message the caller was
\* not shown, such as a message beyond the limit.
C36_MarkedReadWasShown ==
    [][reply' # reply /\ reply'.op = "fetch" =>
          \A i \in 1..Len(messages) :
              ~messages[i].read /\ messages'[i].read =>
                  \E k \in 1..Len(reply'.shown) : reply'.shown[k] = i]_vars

\* C37: once a Conversation has been administratively terminated, no
\* participant operation changes its status or creates a new Message in it.
C37_TerminatedIsFinal ==
    [][\A c \in DOMAIN conversations :
          conversations[c].status = "terminated" =>
              /\ conversations'[c].status = "terminated"
              /\ \A i \in (Len(messages) + 1)..Len(messages') :
                    messages'[i].conversation_id # c]_vars

\* C38: a failure to publish never fails send_message: when the checks pass and
\* the database writes succeed the call answers 201 and returns the Message it
\* stored, whose preview is set, whether or not the publish raised; and only a
\* stored Message whose preview was written is ever on the channel.
C38_PublishFailureTolerated ==
    /\ [](\A i \in redis_published :
             /\ i \in 1..Len(messages)
             /\ conversations[messages[i].conversation_id].last_message_at
                    >= messages[i].timestamp)
    /\ [][reply' # reply /\ reply'.op = "send"
             /\ send_message_response(reply'.target, reply'.user) = 201
             /\ reply'.fails \cap {"insert", "preview"} = {}
          => /\ reply'.code = 201
             /\ Len(messages') = Len(messages) + 1
             /\ reply'.shown = <<Len(messages')>>
             /\ messages'[Len(messages')].conversation_id = reply'.target
             /\ messages'[Len(messages')].sender_id = reply'.user
             /\ conversations'[reply'.target].last_message_at = now
             /\ redis_published' \ redis_published
                    = IF "publish" \in reply'.fails THEN {} ELSE {Len(messages')}]_vars

\* C38: a send whose publish raised answered 201, its Message is stored and is
\* not on the channel.
C38_Witness ==
    /\ reply.op = "send"
    /\ reply.fails = {"publish"}
    /\ reply.code = 201
    /\ reply.shown = <<Len(messages)>>
    /\ Len(messages) \notin redis_published
    /\ messages[Len(messages)].conversation_id = reply.target
====
